---- MODULE Spec2Model ----
(***************************************************************************)
(* Formatting-preserving scoped text replacement of the Word document      *)
(* server: FontFormatter, ParagraphFormatter, TextReplacer and             *)
(* FormattedEditor of utils/formatted_editor.py, and the tool handler      *)
(* search_and_replace_in_scope of tools/extended_document_tools.py.        *)
(*                                                                         *)
(* A text is a sequence of one-character strings, a run is a record        *)
(* [text, font], a paragraph is the sequence of its runs, a font is a      *)
(* record with one field per attribute python-docx exposes; the string     *)
(* "None" is Python's None (attribute unset).                              *)
(***************************************************************************)
EXTENDS Integers, Sequences, FiniteSets, TLC

VARIABLES
    \* ---- one call of TextReplacer.replace_in_paragraph (SpecPara) ----
    paragraph,          \* the paragraph's run list
    find_text,          \* argument find_text
    replace_text,       \* argument replace_text
    original_runs,      \* the run list before the call
    replacements_made,  \* the value returned, -1 before the call returns
    pieces,             \* what the pass appended, piece by piece, in order
    cleared,            \* whether clear_content() was called
    \* ---- scoped replacement calls on one document path (Spec) ----
    stored,             \* the file at doc_path
    editor_doc,         \* _doc of the FormattedEditor a direct caller keeps
    calls,              \* calls made so far
    result,             \* what the last call returned
    last_call,          \* the last call: its arguments and what it did
    \* ---- two invocations of the tool handler on one path (SpecRace, SpecLoop) ----
    callers,            \* per invocation: position, arguments, document in memory
    \* ---- replace_in_paragraph, one loop iteration at a time (SpecScan) ----
    scan,               \* position in the pass and its local variables
    \* ---- editing_utils.replace_in_paragraph_preserving_formatting (SpecPara) ----
    util                \* what it did with a copy of the paragraph, once called

pvars == <<paragraph, find_text, replace_text, original_runs,
           replacements_made, pieces, cleared>>
fvars == <<stored, editor_doc, calls, result, last_call>>
rvars == <<callers>>
svars == <<scan>>
uvars == <<util>>
vars  == <<pvars, fvars, rvars, svars, uvars>>

\* ------------------------------------------------------------------ bounds
MaxRuns    == 2     \* runs of an input paragraph
MaxTextLen == 3     \* characters of an input paragraph
MaxFindLen == 2     \* characters of a search string
MaxCalls   == 2     \* scoped replacement calls in one behaviour

Chars == {"a", "b"}

\* ------------------------------------------------------------ descriptors
None == "None"

AttrsToCopy ==
    <<"name", "size", "bold", "italic", "underline", "strike", "double_strike",
      "subscript", "superscript", "all_caps", "small_caps", "shadow", "outline",
      "emboss", "imprint">>

FontAttrs ==
    {AttrsToCopy[i] : i \in 1..Len(AttrsToCopy)} \cup {"color", "highlight_color"}

\* The font of a run paragraph.add_run() has just created: nothing is set.
NewRunFont == [a \in FontAttrs |-> None]

PlainFont      == NewRunFont
BoldFont       == [PlainFont EXCEPT !["bold"] = "True"]
ItalicFont     == [PlainFont EXCEPT !["italic"] = "True"]
BoldStrikeFont == [BoldFont EXCEPT !["strike"] = "True"]

Fonts == {BoldFont, ItalicFont, BoldStrikeFont}

\* paragraph.style.font, the fallback of a paragraph without runs.
StyleFont == [PlainFont EXCEPT !["name"] = "Calibri"]

\* ------------------------------------------------------------------ texts
TextsUpTo(n) == UNION {[1..k -> Chars] : k \in 0..n}

RECURSIVE RunLists(_, _)
RunLists(k, len) ==
    IF k = 0 THEN {<<>>}
    ELSE UNION {{<<[text |-> t, font |-> f]>> \o rest :
                    f \in Fonts, rest \in RunLists(k - 1, len - Len(t))} :
                t \in TextsUpTo(len)}

Paragraphs   == UNION {RunLists(k, MaxTextLen) : k \in 0..MaxRuns}
FindTexts    == TextsUpTo(MaxFindLen)
ReplaceTexts == {<<>>, <<"b">>, <<"a", "a">>}

Min(S) == CHOOSE x \in S : \A y \in S : x <= y

\* paragraph.text: the runs' texts, concatenated in order.
RECURSIVE ParagraphText(_)
ParagraphText(runs) ==
    IF runs = <<>> THEN <<>>
    ELSE Head(runs).text \o ParagraphText(Tail(runs))

\* Faulty variant of Find: the search starts one character too late.
FindAfterStart(text, sub, start) ==
    LET hits == {i \in (start + 1)..(Len(text) - Len(sub)) :
                    SubSeq(text, i + 1, i + Len(sub)) = sub}
    IN  IF hits = {} THEN -1 ELSE Min(hits)

\* str.find(sub, start): the lowest 0-based index >= start where sub occurs, or -1.
Find(text, sub, start) ==
    LET hits == {i \in start..(Len(text) - Len(sub)) :
                    SubSeq(text, i + 1, i + Len(sub)) = sub}
    IN  IF hits = {} THEN -1 ELSE Min(hits)

\* text[from:to] of Python, 0-based, to exclusive.
Slice(text, from, to) == SubSeq(text, from + 1, to)

\* --------------------------------------------------------- FontFormatter
\* Python's None where a font object is expected.
NoFont == [absent |-> TRUE]

\* The loop over attrs_to_copy: a value that is not None is set on the target.
RECURSIVE CopyAttrs(_, _, _)
CopyAttrs(i, source_font, target_font) ==
    IF i > Len(AttrsToCopy) THEN target_font
    ELSE LET attr == AttrsToCopy[i]
             val  == source_font[attr]
         IN  CopyAttrs(i + 1, source_font,
                       IF val # None THEN [target_font EXCEPT ![attr] = val]
                                     ELSE target_font)

\* FontFormatter.copy_font_properties: the target run's font afterwards.
CopyFontProperties(source_font, target_font) ==
    IF source_font = NoFont THEN target_font
    ELSE LET basic   == CopyAttrs(1, source_font, target_font)
             colored == IF source_font["color"] # None
                        THEN [basic EXCEPT !["color"] = source_font["color"]]
                        ELSE basic
         IN  IF source_font["highlight_color"] # None
             THEN [colored EXCEPT
                     !["highlight_color"] = source_font["highlight_color"]]
             ELSE colored

\* FontFormatter._get_color_rgb
GetColorRgb(font) == font["color"]

\* FontFormatter.fonts_are_equivalent
FontsAreEquivalent(font1, font2) ==
    IF font1 = NoFont \/ font2 = NoFont THEN font1 = font2
    ELSE /\ font1["name"] = font2["name"]
         /\ font1["size"] = font2["size"]
         /\ font1["bold"] = font2["bold"]
         /\ font1["italic"] = font2["italic"]
         /\ font1["underline"] = font2["underline"]
         /\ GetColorRgb(font1) = GetColorRgb(font2)
         /\ font1["highlight_color"] = font2["highlight_color"]

\* ---------------------------------------------------- ParagraphFormatter
\* extract_run_info: one RunInfo(text, font) per run, in order.
ExtractRunInfo(runs) == [k \in 1..Len(runs) |-> [text |-> runs[k].text, font |-> runs[k].font]]

\* Faulty variant of FontLoop: the end of a run's span belongs to the run
\* (current_pos <= position <= current_pos + run_length).
RECURSIVE FontLoopInclusive(_, _, _, _)
FontLoopInclusive(k, current_pos, position, runs) ==
    IF k > Len(runs)
    THEN IF runs # <<>> THEN runs[1].font ELSE StyleFont
    ELSE IF current_pos <= position /\ position <= current_pos + Len(runs[k].text)
    THEN runs[k].font
    ELSE FontLoopInclusive(k + 1, current_pos + Len(runs[k].text), position, runs)

\* The for loop of _get_font_for_position, at run k with offset current_pos.
RECURSIVE FontLoop(_, _, _, _)
FontLoop(k, current_pos, position, runs) ==
    IF k > Len(runs)
    THEN IF runs # <<>> THEN runs[1].font ELSE StyleFont
    ELSE LET run_length == Len(runs[k].text)
         IN  IF current_pos <= position /\ position < current_pos + run_length
             THEN runs[k].font
             ELSE FontLoop(k + 1, current_pos + run_length, position, runs)

\* Faulty variant of GetFontForPosition: the run that ends at the position wins
\* over the run that starts there (current_pos < position <= current_pos + len).
GetFontBeforePosition(position, runs) ==
    FontLoop(1, 0, IF position = 0 THEN 0 ELSE position - 1, runs)

\* ParagraphFormatter._get_font_for_position
GetFontForPosition(position, runs) == FontLoop(1, 0, position, runs)

\* Faulty variant of AddFormattedRun: the font is not copied onto the new run.
AddUnformattedRun(text, font) == [text |-> text, font |-> NewRunFont]

\* ParagraphFormatter._add_formatted_run: the run paragraph.add_run(text) creates,
\* with the font's properties copied onto it.
AddFormattedRun(text, font) ==
    [text |-> text, font |-> CopyFontProperties(font, NewRunFont)]

\* The for loop of apply_formatted_segment at character i (0-based), with the
\* runs appended so far in out; the final flush when the segment is exhausted.
RECURSIVE SegmentLoop(_, _, _, _, _, _, _)
SegmentLoop(i, segment_text, runs, segment_start_pos, current_run_buffer, current_font, out) ==
    IF i >= Len(segment_text)
    THEN IF current_run_buffer # <<>>
         THEN Append(out, AddFormattedRun(current_run_buffer, current_font))
         ELSE out
    ELSE LET char      == <<segment_text[i + 1]>>
             char_font == GetFontForPosition(segment_start_pos + i, runs)
         IN  IF current_run_buffer = <<>>
             THEN SegmentLoop(i + 1, segment_text, runs, segment_start_pos,
                              char, char_font, out)
             ELSE IF FontsAreEquivalent(current_font, char_font)
             THEN SegmentLoop(i + 1, segment_text, runs, segment_start_pos,
                              current_run_buffer \o char, current_font, out)
             ELSE SegmentLoop(i + 1, segment_text, runs, segment_start_pos,
                              char, char_font,
                              Append(out, AddFormattedRun(current_run_buffer,
                                                          current_font)))

\* ParagraphFormatter.apply_formatted_segment: the runs it appends, in order.
ApplyFormattedSegment(segment_text, runs, segment_start_pos) ==
    IF segment_text = <<>> THEN <<>>
    ELSE SegmentLoop(0, segment_text, runs, segment_start_pos, <<>>, NoFont, <<>>)

\* ----------------------------------------------------------- TextReplacer
\* One thing the pass appended: the runs of one apply_formatted_segment call
\* (kind "segment") or the run of one replacement (kind "match"), with the
\* span [start, start + Len(text)) of the original text it stands for.
Piece(kind, start, text, runs) ==
    [kind |-> kind, start |-> start, text |-> text, runs |-> runs]

\* Faulty variant of ReplaceLoop: after a match the scan goes on one character
\* further (current_pos = match_pos + 1), so overlapping occurrences are found.
RECURSIVE ReplaceLoopOverlapping(_, _, _, _, _, _, _)
ReplaceLoopOverlapping(current_pos, full_text, runs, find, repl, done, count) ==
    IF ~(current_pos < Len(full_text))
    THEN [pieces |-> done, count |-> count]
    ELSE IF Find(full_text, find, current_pos) = -1
    THEN [pieces |-> Append(done,
                       Piece("segment", current_pos,
                             Slice(full_text, current_pos, Len(full_text)),
                             ApplyFormattedSegment(
                                Slice(full_text, current_pos, Len(full_text)),
                                runs, current_pos))),
          count |-> count]
    ELSE ReplaceLoopOverlapping(
            Find(full_text, find, current_pos) + 1, full_text, runs, find, repl,
            done \o
            << Piece("segment", current_pos,
                     Slice(full_text, current_pos, Find(full_text, find, current_pos)),
                     ApplyFormattedSegment(
                        Slice(full_text, current_pos, Find(full_text, find, current_pos)),
                        runs, current_pos)),
               Piece("match", Find(full_text, find, current_pos), find,
                     <<AddFormattedRun(repl,
                          GetFontForPosition(Find(full_text, find, current_pos), runs))>>) >>,
            count + 1)

\* The while loop of replace_in_paragraph at current_pos, with the pieces
\* appended so far and the count so far.
RECURSIVE ReplaceLoop(_, _, _, _, _, _, _)
ReplaceLoop(current_pos, full_text, runs, find, repl, done, count) ==
    IF ~(current_pos < Len(full_text))
    THEN [pieces |-> done, count |-> count]
    ELSE LET match_pos == Find(full_text, find, current_pos)
         IN  IF match_pos = -1
             THEN LET remaining_text == Slice(full_text, current_pos, Len(full_text))
                  IN  [pieces |-> Append(done,
                                    Piece("segment", current_pos, remaining_text,
                                          ApplyFormattedSegment(remaining_text, runs,
                                                                current_pos))),
                       count |-> count]
             ELSE LET before_match == Slice(full_text, current_pos, match_pos)
                      match_font   == GetFontForPosition(match_pos, runs)
                  IN  ReplaceLoop(match_pos + Len(find), full_text, runs, find, repl,
                                  done \o
                                  << Piece("segment", current_pos, before_match,
                                           ApplyFormattedSegment(before_match, runs,
                                                                 current_pos)),
                                     Piece("match", match_pos, find,
                                           <<AddFormattedRun(repl, match_font)>>) >>,
                                  count + 1)

\* The runs of all pieces, in order: the paragraph's run list after the pass.
RECURSIVE PieceRuns(_)
PieceRuns(ps) ==
    IF ps = <<>> THEN <<>> ELSE Head(ps).runs \o PieceRuns(Tail(ps))

\* Faulty variant of ReplaceInParagraph: no early return when the search string
\* does not occur, the paragraph is cleared and rebuilt in every case.
ReplaceWithoutOccurrenceCheck(runs, find, repl) ==
    IF find = <<>>
    THEN [runs |-> runs, count |-> 0, pieces |-> <<>>, cleared |-> FALSE]
    ELSE LET snapshot  == ExtractRunInfo(runs)
             full_text == ParagraphText(runs)
             r         == ReplaceLoop(0, full_text, snapshot, find, repl, <<>>, 0)
         IN  [runs |-> PieceRuns(r.pieces), count |-> r.count,
              pieces |-> r.pieces, cleared |-> TRUE]

\* Faulty variant of ReplaceInParagraph: no snapshot, the rebuilt paragraph is
\* searched once more, replacements included.
ReplaceRescanning(runs, find, repl) ==
    IF find = <<>> \/ Find(ParagraphText(runs), find, 0) = -1
    THEN [runs |-> runs, count |-> 0, pieces |-> <<>>, cleared |-> FALSE]
    ELSE LET first  == ReplaceLoop(0, ParagraphText(runs), ExtractRunInfo(runs),
                                   find, repl, <<>>, 0)
             again  == PieceRuns(first.pieces)
             second == ReplaceLoop(0, ParagraphText(again), ExtractRunInfo(again),
                                   find, repl, <<>>, 0)
         IN  [runs |-> PieceRuns(second.pieces), count |-> first.count + second.count,
              pieces |-> second.pieces, cleared |-> TRUE]

\* TextReplacer.replace_in_paragraph: the run list afterwards, the value
\* returned, what was appended and whether the content was cleared.
ReplaceInParagraph(runs, find, repl) ==
    IF find = <<>> \/ Find(ParagraphText(runs), find, 0) = -1
    THEN [runs |-> runs, count |-> 0, pieces |-> <<>>, cleared |-> FALSE]
    ELSE LET snapshot  == ExtractRunInfo(runs)
             full_text == ParagraphText(runs)
             r         == ReplaceLoop(0, full_text, snapshot, find, repl, <<>>, 0)
         IN  [runs |-> PieceRuns(r.pieces), count |-> r.count,
              pieces |-> r.pieces, cleared |-> TRUE]

\* ---------------------------------------------------------- editing_utils
\* attrs_to_copy of _copy_font_properties.
UtilAttrsToCopy ==
    <<"name", "size", "bold", "italic", "underline", "strike", "double_strike",
      "subscript", "superscript", "all_caps", "small_caps", "shadow", "outline",
      "emboss", "imprint">>

\* The loop over attrs_to_copy of _copy_font_properties.
RECURSIVE UtilCopyAttrs(_, _, _)
UtilCopyAttrs(i, source_font, target_font) ==
    IF i > Len(UtilAttrsToCopy) THEN target_font
    ELSE IF source_font[UtilAttrsToCopy[i]] # None
    THEN UtilCopyAttrs(i + 1, source_font,
            [target_font EXCEPT ![UtilAttrsToCopy[i]] = source_font[UtilAttrsToCopy[i]]])
    ELSE UtilCopyAttrs(i + 1, source_font, target_font)

\* The colour step of _copy_font_properties.
UtilCopyColor(source_font, target_font) ==
    IF source_font["color"] # None
    THEN [target_font EXCEPT !["color"] = source_font["color"]]
    ELSE target_font

\* The highlight step of _copy_font_properties.
UtilCopyHighlight(source_font, target_font) ==
    IF source_font["highlight_color"] # None
    THEN [target_font EXCEPT !["highlight_color"] = source_font["highlight_color"]]
    ELSE target_font

\* editing_utils._copy_font_properties: the target run's font afterwards.
UtilCopyFontProperties(source_font, target_font) ==
    IF source_font = NoFont THEN target_font
    ELSE UtilCopyHighlight(source_font,
            UtilCopyColor(source_font, UtilCopyAttrs(1, source_font, target_font)))

\* paragraph.add_run(text) followed by _copy_font_properties(font, new_run).
UtilAddRun(text, font) ==
    [text |-> text, font |-> UtilCopyFontProperties(font, NewRunFont)]

\* The lookup loop of apply_formatted_segment at run k (lines 59-69): the font
\* of the run that holds the position; when no run holds it, the first run's
\* font if there are runs, else the paragraph style's font.
RECURSIVE UtilCharFont(_, _, _, _)
UtilCharFont(k, running_char_count_for_lookup, original_char_absolute_pos, original_runs_info) ==
    IF k > Len(original_runs_info)
    THEN IF original_runs_info # <<>> THEN original_runs_info[1].font ELSE StyleFont
    ELSE IF /\ running_char_count_for_lookup <= original_char_absolute_pos
            /\ original_char_absolute_pos
                  < running_char_count_for_lookup + Len(original_runs_info[k].text)
    THEN original_runs_info[k].font
    ELSE UtilCharFont(k + 1,
            running_char_count_for_lookup + Len(original_runs_info[k].text),
            original_char_absolute_pos, original_runs_info)

\* The condition of lines 76-84: both fonts are objects and agree on name,
\* size, bold, italic, underline, colour and highlight colour.
UtilSameFont(current_run_font_obj, char_original_font) ==
    /\ current_run_font_obj # NoFont
    /\ char_original_font # NoFont
    /\ current_run_font_obj["name"] = char_original_font["name"]
    /\ current_run_font_obj["size"] = char_original_font["size"]
    /\ current_run_font_obj["bold"] = char_original_font["bold"]
    /\ current_run_font_obj["italic"] = char_original_font["italic"]
    /\ current_run_font_obj["underline"] = char_original_font["underline"]
    /\ current_run_font_obj["color"] = char_original_font["color"]
    /\ current_run_font_obj["highlight_color"] = char_original_font["highlight_color"]

\* The for loop of editing_utils.apply_formatted_segment at character i
\* (0-based), and the last accumulated run when the segment is exhausted.
RECURSIVE UtilSegmentLoop(_, _, _, _, _, _, _)
UtilSegmentLoop(i, segment_text, original_runs_info, segment_start_in_full_text, current_run_text_buffer, current_run_font_obj, out) ==
    IF i >= Len(segment_text)
    THEN IF current_run_text_buffer # <<>>
         THEN Append(out, UtilAddRun(current_run_text_buffer, current_run_font_obj))
         ELSE out
    ELSE IF current_run_text_buffer = <<>>
    THEN UtilSegmentLoop(i + 1, segment_text, original_runs_info,
            segment_start_in_full_text, <<segment_text[i + 1]>>,
            UtilCharFont(1, 0, segment_start_in_full_text + i, original_runs_info), out)
    ELSE IF UtilSameFont(current_run_font_obj,
               UtilCharFont(1, 0, segment_start_in_full_text + i, original_runs_info))
    THEN UtilSegmentLoop(i + 1, segment_text, original_runs_info,
            segment_start_in_full_text,
            current_run_text_buffer \o <<segment_text[i + 1]>>,
            current_run_font_obj, out)
    ELSE UtilSegmentLoop(i + 1, segment_text, original_runs_info,
            segment_start_in_full_text, <<segment_text[i + 1]>>,
            UtilCharFont(1, 0, segment_start_in_full_text + i, original_runs_info),
            Append(out, UtilAddRun(current_run_text_buffer, current_run_font_obj)))

\* editing_utils.apply_formatted_segment: the runs it appends, in order.
UtilApplyFormattedSegment(segment_text, original_runs_info, segment_start_in_full_text) ==
    IF segment_text = <<>> THEN <<>>
    ELSE UtilSegmentLoop(0, segment_text, original_runs_info,
                         segment_start_in_full_text, <<>>, NoFont, <<>>)

\* original_runs_info (lines 106-111): text and font of every run, in order.
OriginalRunsInfo(runs) ==
    [k \in 1..Len(runs) |-> [text |-> runs[k].text, font |-> runs[k].font]]

\* full_text_original (line 113): the texts of original_runs_info, joined.
RECURSIVE FullTextOriginal(_)
FullTextOriginal(original_runs_info) ==
    IF original_runs_info = <<>> THEN <<>>
    ELSE Head(original_runs_info).text \o FullTextOriginal(Tail(original_runs_info))

\* Faulty variant of FontAtMatchStartLoop: the run that ends at the match start
\* holds it (char_count < match_start_index <= char_count + run_len), the
\* first run when the match starts the text.
RECURSIVE FontAtMatchStartLoopBefore(_, _, _, _)
FontAtMatchStartLoopBefore(k, char_count_for_style_lookup, match_start_index, original_runs_info) ==
    IF k > Len(original_runs_info) THEN StyleFont
    ELSE IF /\ match_start_index = 0
               \/ char_count_for_style_lookup < match_start_index
            /\ match_start_index
                  <= char_count_for_style_lookup + Len(original_runs_info[k].text)
    THEN original_runs_info[k].font
    ELSE FontAtMatchStartLoopBefore(k + 1,
            char_count_for_style_lookup + Len(original_runs_info[k].text),
            match_start_index, original_runs_info)

\* The loop of lines 141-146 at run k: the font of the run that holds the
\* match start. When no run holds it the default of line 138 stays: the
\* assignment of line 148 needs a font that is false, and a Font object is not.
RECURSIVE FontAtMatchStartLoop(_, _, _, _)
FontAtMatchStartLoop(k, char_count_for_style_lookup, match_start_index, original_runs_info) ==
    IF k > Len(original_runs_info) THEN StyleFont
    ELSE IF /\ char_count_for_style_lookup <= match_start_index
            /\ match_start_index
                  < char_count_for_style_lookup + Len(original_runs_info[k].text)
    THEN original_runs_info[k].font
    ELSE FontAtMatchStartLoop(k + 1,
            char_count_for_style_lookup + Len(original_runs_info[k].text),
            match_start_index, original_runs_info)

\* font_at_match_start (lines 138-148).
FontAtMatchStart(match_start_index, original_runs_info) ==
    FontAtMatchStartLoop(1, 0, match_start_index, original_runs_info)

\* The while loop of replace_in_paragraph_preserving_formatting (lines 123-155)
\* at current_pos_in_original_text, with the runs added so far and the count.
RECURSIVE UtilReplaceLoop(_, _, _, _, _, _, _)
UtilReplaceLoop(current_pos_in_original_text, full_text_original, original_runs_info, find_str, replace_str, added, replacements_made_in_para) ==
    IF ~(current_pos_in_original_text < Len(full_text_original))
    THEN [runs |-> added, count |-> replacements_made_in_para]
    ELSE IF Find(full_text_original, find_str, current_pos_in_original_text) = -1
    THEN [runs |-> added \o UtilApplyFormattedSegment(
                      Slice(full_text_original, current_pos_in_original_text,
                            Len(full_text_original)),
                      original_runs_info, current_pos_in_original_text),
          count |-> replacements_made_in_para]
    ELSE UtilReplaceLoop(
            Find(full_text_original, find_str, current_pos_in_original_text)
               + Len(find_str),
            full_text_original, original_runs_info, find_str, replace_str,
            added
            \o UtilApplyFormattedSegment(
                  Slice(full_text_original, current_pos_in_original_text,
                        Find(full_text_original, find_str, current_pos_in_original_text)),
                  original_runs_info, current_pos_in_original_text)
            \o <<UtilAddRun(replace_str,
                    FontAtMatchStart(
                       Find(full_text_original, find_str, current_pos_in_original_text),
                       original_runs_info))>>,
            replacements_made_in_para + 1)

\* editing_utils.replace_in_paragraph_preserving_formatting: the run list
\* afterwards and the value returned.
ReplaceInParagraphPreservingFormatting(runs, find_str, replace_str) ==
    IF find_str = <<>> \/ Find(FullTextOriginal(OriginalRunsInfo(runs)), find_str, 0) = -1
    THEN [called |-> TRUE, runs |-> runs, count |-> 0]
    ELSE [called |-> TRUE] @@
         UtilReplaceLoop(0, FullTextOriginal(OriginalRunsInfo(runs)),
                         OriginalRunsInfo(runs), find_str, replace_str, <<>>, 0)

\* ------------------------------------------------------------- documents
\* A document is [paragraphs, tables]: the body paragraphs and the body
\* tables; a table is the sequence of its rows, a row the sequence of its
\* cells, a cell the sequence of its paragraphs (run lists).
NoFile      == [missing |-> TRUE]      \* os.path.exists(doc_path) is false
CorruptFile == [corrupt |-> TRUE]      \* Document(doc_path) raises
NoDoc       == [none |-> TRUE]         \* self._doc = None
NoResult    == [none |-> TRUE]
NoCall      == [kind |-> "none"]
NoCallers   == <<>>
NoScan      == [pc |-> "none"]
NoUtil      == [called |-> FALSE]

Run(text, font) == [text |-> text, font |-> font]

\* Two body paragraphs and one table of one row and two columns; the first
\* cell holds the paragraphs "a" and "ba", the second the paragraph "b".
DocumentA ==
    [paragraphs |-> << <<Run(<<"a">>, BoldFont), Run(<<"b">>, ItalicFont)>>,
                       <<Run(<<"a", "b">>, BoldStrikeFont)>> >>,
     tables     |-> << << << << <<Run(<<"a">>, BoldFont)>>,
                                <<Run(<<"b">>, BoldFont), Run(<<"a">>, ItalicFont)>> >>,
                             << <<Run(<<"b">>, ItalicFont)>> >> >> >> >>]

\* Three body paragraphs and no table.
DocumentB ==
    [paragraphs |-> << <<Run(<<"b">>, BoldFont)>>,
                       <<Run(<<"a">>, ItalicFont), Run(<<"a">>, BoldFont)>>,
                       <<>> >>,
     tables     |-> <<>>]

\* Optional[int]: <<>> is None, <<i>> is the integer i.
NoIndex   == <<>>
Some(i)   == <<i>>

\* ScopeLocation
ScopeLocation(scope_type, paragraph_index, table_index, row_index, col_index) ==
    [scope_type |-> scope_type, paragraph_index |-> paragraph_index,
     table_index |-> table_index, row_index |-> row_index, col_index |-> col_index]

ParagraphScope(i)       == ScopeLocation("paragraph", i, NoIndex, NoIndex, NoIndex)
TableCellScope(t, r, c) == ScopeLocation("table_cell", NoIndex, t, r, c)

\* The scopes a caller passes: in range, out of range at either end (one
\* index or several), None, and a scope_type that does not exist.
Scopes ==
    {ParagraphScope(i) : i \in {NoIndex, Some(-1), Some(0), Some(2), Some(3)}}
    \cup {TableCellScope(Some(0), Some(0), Some(0)),
          TableCellScope(Some(0), Some(0), Some(1)),
          TableCellScope(Some(1), Some(0), Some(0)),
          TableCellScope(Some(0), Some(1), Some(0)),
          TableCellScope(Some(0), Some(0), Some(2)),
          TableCellScope(Some(0), Some(1), Some(2)),
          TableCellScope(Some(1), Some(1), Some(2)),
          TableCellScope(Some(-1), Some(0), Some(0)),
          TableCellScope(Some(0), Some(-1), Some(0)),
          TableCellScope(Some(0), Some(0), Some(-1)),
          TableCellScope(NoIndex, Some(0), Some(0)),
          TableCellScope(Some(0), NoIndex, Some(0)),
          TableCellScope(Some(0), Some(0), NoIndex),
          ScopeLocation("section", Some(0), NoIndex, NoIndex, NoIndex)}

ScopeFindTexts    == {<<>>, <<"a">>}
ScopeReplaceTexts == {<<"b">>, <<"a", "a">>}

\* What the tool handler is called with: scope_type and the scope_identifier
\* dictionary (a function from the keys present to Optional[int]).
HandlerScope(scope_type, scope_identifier) ==
    [scope_type |-> scope_type, scope_identifier |-> scope_identifier]

HandlerScopes ==
    {HandlerScope("paragraph", [paragraph_index |-> Some(0)]),
     HandlerScope("paragraph", [paragraph_index |-> Some(3)]),
     HandlerScope("paragraph", [paragraph_index |-> NoIndex]),
     HandlerScope("paragraph", [table_index |-> Some(0)]),
     HandlerScope("table_cell", [table_index |-> Some(0), row_index |-> Some(0),
                                 col_index |-> Some(0)]),
     HandlerScope("table_cell", [table_index |-> Some(0), row_index |-> Some(0),
                                 col_index |-> Some(2)]),
     HandlerScope("table_cell", [table_index |-> Some(0), col_index |-> Some(0)]),
     HandlerScope("section", [paragraph_index |-> Some(0)])}

\* Faulty variant of ScopeStr: every scope is described as a table cell.
ScopeStrAsCell(scope) ==
    [kind |-> "Table", table |-> scope.table_index,
     row |-> scope.row_index, col |-> scope.col_index]

\* ScopeLocation.__str__
ScopeStr(scope) ==
    IF scope.scope_type = "paragraph"
    THEN [kind |-> "Paragraph", index |-> scope.paragraph_index]
    ELSE [kind |-> "Table", table |-> scope.table_index,
          row |-> scope.row_index, col |-> scope.col_index]

IsError(r) == "error" \in DOMAIN r

\* f"Replaced '{find_text}' with '{replace_text}' in {scope}"
Message(find, repl, scope) ==
    [text |-> "Replaced", find_text |-> find, replace_text |-> repl,
     scope |-> ScopeStr(scope)]

\* -------------------------------------------------------- FormattedEditor
\* Faulty variant of LoadDocument: a document that fails to load is read a
\* second time.
LoadDocumentRetrying(doc, file) ==
    IF file = NoFile
    THEN [result |-> [error |-> "Document does not exist"], doc |-> doc, loads |-> 0]
    ELSE IF file = CorruptFile
    THEN [result |-> [error |-> "Failed to load document"], doc |-> doc, loads |-> 2]
    ELSE [result |-> [success |-> TRUE], doc |-> file, loads |-> 1]

\* FormattedEditor._load_document: the result, _doc afterwards and the number
\* of Document(doc_path) calls.
LoadDocument(doc, file) ==
    IF file = NoFile
    THEN [result |-> [error |-> "Document does not exist"], doc |-> doc, loads |-> 0]
    ELSE IF file = CorruptFile
    THEN [result |-> [error |-> "Failed to load document"], doc |-> doc, loads |-> 1]
    ELSE [result |-> [success |-> TRUE], doc |-> file, loads |-> 1]

\* Faulty variant of CheckParagraphScope: the last paragraph is out of range
\* (0 <= paragraph_index < len(paragraphs) - 1).
CheckParagraphScopeShort(doc, scope) ==
    IF scope.paragraph_index = NoIndex
    THEN [error |-> "Missing paragraph_index for paragraph scope"]
    ELSE IF ~(0 <= scope.paragraph_index[1]
              /\ scope.paragraph_index[1] < Len(doc.paragraphs) - 1)
    THEN [error |-> "Invalid paragraph index", index |-> scope.paragraph_index[1],
          has |-> Len(doc.paragraphs), of |-> "paragraphs"]
    ELSE [success |-> TRUE,
          target |-> [kind |-> "paragraph", index |-> scope.paragraph_index[1]]]

\* _validate_scope, scope_type "paragraph" (lines 269-279).
CheckParagraphScope(doc, scope) ==
    IF scope.paragraph_index = NoIndex
    THEN [error |-> "Missing paragraph_index for paragraph scope"]
    ELSE IF ~(0 <= scope.paragraph_index[1]
              /\ scope.paragraph_index[1] < Len(doc.paragraphs))
    THEN [error |-> "Invalid paragraph index", index |-> scope.paragraph_index[1],
          has |-> Len(doc.paragraphs), of |-> "paragraphs"]
    ELSE [success |-> TRUE,
          target |-> [kind |-> "paragraph", index |-> scope.paragraph_index[1]]]

\* Faulty variant of CheckCell: the column is checked before the row.
CheckCellColumnFirst(table, scope) ==
    IF ~(0 <= scope.col_index[1] /\ scope.col_index[1] < Len(table[1]))
    THEN [error |-> "Invalid column index", index |-> scope.col_index[1],
          has |-> Len(table[1]), of |-> "columns"]
    ELSE IF ~(0 <= scope.row_index[1] /\ scope.row_index[1] < Len(table))
    THEN [error |-> "Invalid row index", index |-> scope.row_index[1],
          has |-> Len(table), of |-> "rows"]
    ELSE [success |-> TRUE,
          target |-> [kind |-> "cell", table |-> scope.table_index[1],
                      row |-> scope.row_index[1], col |-> scope.col_index[1]]]

\* The row and column checks on the table found (lines 292-307); the rows of a
\* table have as many cells as the table has columns.
CheckCell(table, scope) ==
    IF ~(0 <= scope.row_index[1] /\ scope.row_index[1] < Len(table))
    THEN [error |-> "Invalid row index", index |-> scope.row_index[1],
          has |-> Len(table), of |-> "rows"]
    ELSE IF ~(0 <= scope.col_index[1] /\ scope.col_index[1] < Len(table[1]))
    THEN [error |-> "Invalid column index", index |-> scope.col_index[1],
          has |-> Len(table[1]), of |-> "columns"]
    ELSE [success |-> TRUE,
          target |-> [kind |-> "cell", table |-> scope.table_index[1],
                      row |-> scope.row_index[1], col |-> scope.col_index[1]]]

\* _validate_scope, scope_type "table_cell" (lines 281-307).
CheckTableCellScope(doc, scope) ==
    IF scope.table_index = NoIndex
    THEN [error |-> "Missing table_index for table_cell scope"]
    ELSE IF scope.row_index = NoIndex
    THEN [error |-> "Missing row_index for table_cell scope"]
    ELSE IF scope.col_index = NoIndex
    THEN [error |-> "Missing col_index for table_cell scope"]
    ELSE IF ~(0 <= scope.table_index[1] /\ scope.table_index[1] < Len(doc.tables))
    THEN [error |-> "Invalid table index", index |-> scope.table_index[1],
          has |-> Len(doc.tables), of |-> "tables"]
    ELSE CheckCell(doc.tables[scope.table_index[1] + 1], scope)

\* The scope checks of _validate_scope on the loaded document (lines 269-312).
CheckScope(doc, scope) ==
    IF scope.scope_type = "paragraph" THEN CheckParagraphScope(doc, scope)
    ELSE IF scope.scope_type = "table_cell" THEN CheckTableCellScope(doc, scope)
    ELSE [error |-> "Invalid scope_type", scope_type |-> scope.scope_type]

\* FormattedEditor._validate_scope: loads the document when _doc is not set,
\* then checks the scope.
ValidateLoaded(load, scope) ==
    IF IsError(load.result)
    THEN load
    ELSE [result |-> CheckScope(load.doc, scope), doc |-> load.doc, loads |-> load.loads]

ValidateScope(doc, file, scope) ==
    IF doc = NoDoc
    THEN ValidateLoaded(LoadDocument(doc, file), scope)
    ELSE [result |-> CheckScope(doc, scope), doc |-> doc, loads |-> 0]

\* Faulty variant of CellLoop: the loop ends after the cell's first paragraph.
CellLoopFirstOnly(k, paragraphs, find, repl, total, applied) ==
    IF paragraphs = <<>>
    THEN [paragraphs |-> paragraphs, total |-> total, applied |-> applied]
    ELSE [paragraphs |-> [paragraphs EXCEPT
                            ![1] = ReplaceInParagraph(paragraphs[1], find, repl).runs],
          total |-> total + ReplaceInParagraph(paragraphs[1], find, repl).count,
          applied |-> Append(applied,
                        [paragraph |-> 1,
                         count |-> ReplaceInParagraph(paragraphs[1], find, repl).count])]

\* The for loop over target.paragraphs of a cell, at paragraph k: the cell's
\* paragraphs afterwards, the total and the log of replace_in_paragraph calls.
RECURSIVE CellLoop(_, _, _, _, _, _)
CellLoop(k, paragraphs, find, repl, total, applied) ==
    IF k > Len(paragraphs)
    THEN [paragraphs |-> paragraphs, total |-> total, applied |-> applied]
    ELSE LET r == ReplaceInParagraph(paragraphs[k], find, repl)
         IN  CellLoop(k + 1, [paragraphs EXCEPT ![k] = r.runs], find, repl,
                      total + r.count,
                      Append(applied, [paragraph |-> k, count |-> r.count]))

\* The replacement on the validated target (the try block before the save):
\* the document in memory afterwards, the total and the log.
\* The paragraph scope: total_replacements = replace_in_paragraph(target, ...).
ParagraphReplaced(doc, target, r) ==
    [doc |-> [doc EXCEPT !.paragraphs[target.index + 1] = r.runs],
     total |-> r.count,
     applied |-> <<[paragraph |-> target.index + 1, count |-> r.count]>>]

\* The table_cell scope: the loop over target.paragraphs has run.
CellReplaced(doc, target, r) ==
    [doc |-> [doc EXCEPT
                !.tables[target.table + 1][target.row + 1][target.col + 1]
                    = r.paragraphs],
     total |-> r.total, applied |-> r.applied]

ReplaceInTarget(doc, target, find, repl) ==
    IF target.kind = "paragraph"
    THEN ParagraphReplaced(doc, target,
            ReplaceInParagraph(doc.paragraphs[target.index + 1], find, repl))
    ELSE CellReplaced(doc, target,
            CellLoop(1, doc.tables[target.table + 1][target.row + 1][target.col + 1],
                     find, repl, 0, <<>>))

\* What a call did: its result, _doc and the file afterwards, the loads and
\* saves it made, the document it validated the scope on, the total and the
\* log of replace_in_paragraph calls.
Outcome(res, doc, file, loads, saves, doc_before, total, applied) ==
    [result |-> res, doc |-> doc, file |-> file, loads |-> loads, saves |-> saves,
     doc_before |-> doc_before, total |-> total, applied |-> applied]

\* FormattedEditor.search_and_replace_in_scope on an editor whose _doc is doc,
\* with the file at doc_path; save_ok tells whether self._doc.save() succeeds.
\* Lines 341-353: self._doc.save(doc_path) and the result, after the
\* replacement r on the validated scope v.
SaveAndReport(v, r, file, find, repl, scope, save_ok) ==
    IF save_ok
    THEN Outcome([success |-> TRUE,
                  message |-> Message(find, repl, scope),
                  scope |-> ScopeStr(scope),
                  replacements_made |-> r.total,
                  find_text |-> find, replace_text |-> repl],
                 r.doc, r.doc, v.loads, 1, v.doc, r.total, r.applied)
    ELSE Outcome([error |-> "Failed to perform search and replace"],
                 r.doc, file, v.loads, 1, v.doc, r.total, r.applied)

\* Faulty variant of AfterValidation: the document in memory is saved also
\* when the scope was rejected.
AfterValidationSaving(v, file, find, repl, scope, save_ok) ==
    IF IsError(v.result)
    THEN Outcome(v.result, v.doc, IF v.doc = NoDoc THEN file ELSE v.doc,
                 v.loads, IF v.doc = NoDoc THEN 0 ELSE 1, v.doc, 0, <<>>)
    ELSE SaveAndReport(v, ReplaceInTarget(v.doc, v.result.target, find, repl),
                       file, find, repl, scope, save_ok)

\* Lines 322-353: after _validate_scope has returned v.
AfterValidation(v, file, find, repl, scope, save_ok) ==
    IF IsError(v.result)
    THEN Outcome(v.result, v.doc, file, v.loads, 0, v.doc, 0, <<>>)
    ELSE SaveAndReport(v, ReplaceInTarget(v.doc, v.result.target, find, repl),
                       file, find, repl, scope, save_ok)

\* Faulty variant of SearchAndReplaceInScope: the scope is validated, and the
\* document loaded, before the search string is looked at.
SearchValidatingFirst(doc, file, find, repl, scope, save_ok) ==
    IF IsError(ValidateScope(doc, file, scope).result) \/ find # <<>>
    THEN AfterValidation(ValidateScope(doc, file, scope), file, find, repl, scope, save_ok)
    ELSE Outcome([error |-> "Find text cannot be empty"],
                 ValidateScope(doc, file, scope).doc, file,
                 ValidateScope(doc, file, scope).loads, 0, NoDoc, 0, <<>>)

\* FormattedEditor.search_and_replace_in_scope (lines 314-353).
SearchAndReplaceInScope(doc, file, find, repl, scope, save_ok) ==
    IF find = <<>>
    THEN Outcome([error |-> "Find text cannot be empty"], doc, file, 0, 0, NoDoc, 0, <<>>)
    ELSE AfterValidation(ValidateScope(doc, file, scope), file, find, repl, scope, save_ok)

\* The paragraphs of the validated target, in the order the call takes them.
TargetParagraphs(doc, target) ==
    IF target.kind = "paragraph" THEN <<doc.paragraphs[target.index + 1]>>
    ELSE doc.tables[target.table + 1][target.row + 1][target.col + 1]

\* The try block (lines 325-339) when replace_in_paragraph raises on entry for
\* the paragraph raise_at of the target: the paragraphs before it are replaced
\* in memory, that one and the later ones are not.
ReplaceUntilRaise(doc, target, find, repl, raise_at) ==
    IF target.kind = "paragraph"
    THEN [doc |-> doc, total |-> 0, applied |-> <<>>]
    ELSE CellReplaced(doc, target,
            [CellLoop(1, SubSeq(TargetParagraphs(doc, target), 1, raise_at - 1),
                      find, repl, 0, <<>>)
                EXCEPT !.paragraphs =
                    @ \o SubSeq(TargetParagraphs(doc, target), raise_at,
                                Len(TargetParagraphs(doc, target)))])

\* Lines 352-353 after the exception: the error is returned, nothing is saved.
RaiseAndReport(v, r, file) ==
    Outcome([error |-> "Failed to perform search and replace"],
            r.doc, file, v.loads, 0, v.doc, r.total, r.applied)

\* search_and_replace_in_scope with a search string that is not empty and a
\* scope that validates as v, when replace_in_paragraph raises at raise_at.
SearchAndReplaceRaising(v, file, find, repl, raise_at) ==
    RaiseAndReport(v, ReplaceUntilRaise(v.doc, v.result.target, find, repl, raise_at), file)

\* Whether the call reaches self._doc.save(doc_path).
ReachesSave(doc, file, find, scope) ==
    find # <<>> /\ ~IsError(ValidateScope(doc, file, scope).result)

\* ------------------------------------- tool handler search_and_replace_in_scope
\* scope_identifier.get(key)
Get(scope_identifier, key) ==
    IF key \in DOMAIN scope_identifier THEN scope_identifier[key] ELSE NoIndex

\* _validate_scope_identifier: the keys it misses, in the order it lists them.
MissingKeys(scope_type, scope_identifier) ==
    IF scope_type = "paragraph"
    THEN SelectSeq(<<"paragraph_index">>, LAMBDA k : k \notin DOMAIN scope_identifier)
    ELSE IF scope_type = "table_cell"
    THEN SelectSeq(<<"table_index", "row_index", "col_index">>,
                   LAMBDA k : k \notin DOMAIN scope_identifier)
    ELSE <<>>

\* Lines 743-754: the ScopeLocation the handler builds.
HandlerScopeLocation(scope_type, scope_identifier) ==
    IF scope_type = "paragraph"
    THEN ParagraphScope(Get(scope_identifier, "paragraph_index"))
    ELSE ScopeLocation(scope_type, NoIndex, Get(scope_identifier, "table_index"),
                       Get(scope_identifier, "row_index"),
                       Get(scope_identifier, "col_index"))

\* Lines 756-759: the string returned for the facade's outcome o.
HandlerReport(o) ==
    [o EXCEPT !.result =
        IF IsError(o.result)
        THEN [text |-> "Failed to perform replacement", error |-> o.result]
        ELSE o.result.message]

\* A handler return before any FormattedEditor exists.
HandlerRejects(message, file) == Outcome(message, NoDoc, file, 0, 0, NoDoc, 0, <<>>)

\* The tool handler search_and_replace_in_scope; writable is the answer of
\* check_file_writeable, save_ok whether the save succeeds.
HandlerRun(file, find, repl, scope_type, scope_identifier, writable, save_ok) ==
    IF file = NoFile
    THEN HandlerRejects([text |-> "The document could not be found"], file)
    ELSE IF find = <<>>
    THEN HandlerRejects([text |-> "Find text cannot be empty."], file)
    ELSE IF scope_type \notin {"paragraph", "table_cell"}
    THEN HandlerRejects([text |-> "Invalid scope_type", scope_type |-> scope_type], file)
    ELSE IF MissingKeys(scope_type, scope_identifier) # <<>>
    THEN HandlerRejects([text |-> "For this scope, use", scope_type |-> scope_type,
                         missing |-> MissingKeys(scope_type, scope_identifier)], file)
    ELSE IF ~writable
    THEN HandlerRejects([text |-> "Cannot modify the document"], file)
    ELSE HandlerReport(
            SearchAndReplaceInScope(NoDoc, file, find, repl,
                                    HandlerScopeLocation(scope_type, scope_identifier),
                                    save_ok))

\* Whether the handler reaches _check_file_writable.
ReachesWritableCheck(file, find, scope_type, scope_identifier) ==
    /\ file # NoFile
    /\ find # <<>>
    /\ scope_type \in {"paragraph", "table_cell"}
    /\ MissingKeys(scope_type, scope_identifier) = <<>>

\* ------------------------------------------- SpecPara: one paragraph pass
InitPara ==
    /\ paragraph \in Paragraphs
    /\ find_text \in FindTexts
    /\ replace_text \in ReplaceTexts
    /\ original_runs = paragraph
    /\ replacements_made = -1
    /\ pieces = <<>>
    /\ cleared = FALSE
    /\ stored = NoFile
    /\ editor_doc = NoDoc
    /\ calls = 0
    /\ result = NoResult
    /\ last_call = NoCall
    /\ callers = NoCallers
    /\ scan = NoScan
    /\ util = NoUtil

\* text_replacer.replace_in_paragraph(paragraph, find_text, replace_text)
ReplaceCall ==
    /\ replacements_made = -1
    /\ LET r == ReplaceInParagraph(paragraph, find_text, replace_text)
       IN  /\ paragraph' = r.runs
           /\ replacements_made' = r.count
           /\ pieces' = r.pieces
           /\ cleared' = r.cleared
    /\ UNCHANGED <<find_text, replace_text, original_runs>>
    /\ UNCHANGED <<fvars, rvars, svars, uvars>>

NextPara == ReplaceCall

SpecPara == InitPara /\ [][NextPara]_vars

\* ------------------- SpecUtil: the same pass by both implementations
\* replace_in_paragraph_preserving_formatting is called with the same
\* arguments on a copy of the paragraph as it was before the pass.
UtilReplaceCall ==
    /\ replacements_made # -1
    /\ ~util.called
    /\ util' = ReplaceInParagraphPreservingFormatting(original_runs, find_text, replace_text)
    /\ UNCHANGED <<pvars, fvars, rvars, svars>>

NextUtil == ReplaceCall \/ UtilReplaceCall

SpecUtil == InitPara /\ [][NextUtil]_vars

\* ----------------------------------------------------- Spec: scoped calls
Init ==
    /\ stored \in {DocumentA, DocumentB, CorruptFile, NoFile}
    /\ editor_doc = NoDoc
    /\ calls = 0
    /\ result = NoResult
    /\ last_call = NoCall
    /\ callers = NoCallers
    /\ scan = NoScan
    /\ util = NoUtil
    /\ paragraph = <<>>
    /\ find_text = <<>>
    /\ replace_text = <<>>
    /\ original_runs = <<>>
    /\ replacements_made = -1
    /\ pieces = <<>>
    /\ cleared = FALSE

\* What is kept of a call for the properties.
CallRecord(kind, find, repl, scope, save_ok, o) ==
    [kind |-> kind, find_text |-> find, replace_text |-> repl, scope |-> scope,
     save_ok |-> save_ok, stored_before |-> stored, stored_after |-> o.file,
     editor_before |-> editor_doc,
     loads |-> o.loads, saves |-> o.saves, doc_before |-> o.doc_before,
     doc_after |-> o.doc, total |-> o.total, applied |-> o.applied]

\* A caller that keeps one FormattedEditor calls search_and_replace_in_scope.
FacadeCall ==
    /\ calls < MaxCalls
    /\ \E find \in ScopeFindTexts, repl \in ScopeReplaceTexts, scope \in Scopes :
        \E save_ok \in IF ReachesSave(editor_doc, stored, find, scope)
                       THEN BOOLEAN ELSE {TRUE} :
        \E o \in {SearchAndReplaceInScope(editor_doc, stored, find, repl, scope, save_ok)} :
              /\ result' = o.result
              /\ editor_doc' = o.doc
              /\ stored' = o.file
              /\ last_call' = CallRecord("facade", find, repl, scope, save_ok, o)
    /\ calls' = calls + 1
    /\ UNCHANGED <<pvars, rvars, svars, uvars>>

\* A call on the kept FormattedEditor in which replace_in_paragraph raises an
\* exception at one of the paragraphs of the scope.
FacadeCallRaising ==
    /\ calls < MaxCalls
    /\ \E find \in ScopeFindTexts \ {<<>>}, repl \in {<<"b">>}, scope \in Scopes :
          /\ ReachesSave(editor_doc, stored, find, scope)
          /\ \E v \in {ValidateScope(editor_doc, stored, scope)} :
             \E raise_at \in 1..Len(TargetParagraphs(v.doc, v.result.target)) :
             \E o \in {SearchAndReplaceRaising(v, stored, find, repl, raise_at)} :
                /\ result' = o.result
                /\ editor_doc' = o.doc
                /\ stored' = o.file
                /\ last_call' = CallRecord("raising", find, repl, scope, TRUE, o)
    /\ calls' = calls + 1
    /\ UNCHANGED <<pvars, rvars, svars, uvars>>

\* The tool handler is called: it makes its own FormattedEditor, which is gone
\* when it returns.
HandlerCall ==
    /\ calls < MaxCalls
    /\ \E find \in ScopeFindTexts, repl \in {<<"b">>}, hs \in HandlerScopes :
        \E writable \in IF ReachesWritableCheck(stored, find, hs.scope_type,
                                                 hs.scope_identifier)
                        THEN BOOLEAN ELSE {TRUE} :
        \E save_ok \in IF writable
                          /\ ReachesWritableCheck(stored, find, hs.scope_type,
                                                  hs.scope_identifier)
                          /\ ReachesSave(NoDoc, stored, find,
                                         HandlerScopeLocation(hs.scope_type,
                                                              hs.scope_identifier))
                       THEN BOOLEAN ELSE {TRUE} :
        \E o \in {HandlerRun(stored, find, repl, hs.scope_type, hs.scope_identifier,
                             writable, save_ok)} :
              /\ result' = o.result
              /\ stored' = o.file
              /\ last_call' = CallRecord("handler", find, repl, hs, save_ok, o)
    /\ calls' = calls + 1
    /\ UNCHANGED editor_doc
    /\ UNCHANGED <<pvars, rvars, svars, uvars>>

\* Between two calls another program replaces, damages or removes the file at
\* doc_path.
ExternalChange ==
    /\ 0 < calls /\ calls < MaxCalls
    /\ \E file \in {DocumentA, DocumentB, CorruptFile, NoFile} :
          /\ file # stored
          /\ stored' = file
    /\ UNCHANGED <<editor_doc, calls, result, last_call>>
    /\ UNCHANGED <<pvars, rvars, svars, uvars>>

Next == FacadeCall \/ FacadeCallRaising \/ HandlerCall \/ ExternalChange

Spec == Init /\ [][Next]_vars

\* ------------------------- SpecRace, SpecLoop: two invocations on one path
\* Two invocations of the tool handler on the same document path, each with its
\* own FormattedEditor.  An invocation loads (extended_document_tools.py:721-740
\* and formatted_editor.py:318-323), replaces in memory (325-339) and saves
\* (341-350).
Invocations == {1, 2}

Other(i) == IF i = 1 THEN 2 ELSE 1

RaceScopes ==
    {HandlerScope("paragraph", [paragraph_index |-> Some(0)]),
     HandlerScope("paragraph", [paragraph_index |-> Some(3)]),
     HandlerScope("table_cell", [table_index |-> Some(0), row_index |-> Some(0),
                                 col_index |-> Some(0)])}

Requests ==
    [find_text : ScopeFindTexts, replace_text : ScopeReplaceTexts, scope : RaceScopes]

NoTarget == [kind |-> "none"]

\* An invocation that has not started.
Invocation(request) ==
    [pc |-> "idle", request |-> request, doc |-> NoDoc, target |-> NoTarget,
     loaded |-> NoDoc, total |-> 0, result |-> NoResult, saved |-> 0]

\* The ScopeLocation of the invocation's request.
RequestScope(c) ==
    HandlerScopeLocation(c.request.scope.scope_type, c.request.scope.scope_identifier)

\* The invocation returns res.
Returns(c, res) == [c EXCEPT !.pc = "returned", !.result = res]

\* _validate_scope has returned v on the invocation's new editor.
LoadedStep(c, file, v) ==
    IF IsError(v.result)
    THEN Returns(c, [text |-> "Failed to perform replacement", error |-> v.result])
    ELSE [c EXCEPT !.pc = "loaded", !.doc = v.doc, !.loaded = file,
                   !.target = v.result.target]

\* From the call to the loaded document: the handler's checks, the new
\* FormattedEditor, the empty-search check and _validate_scope with its load.
StartStep(c, file) ==
    IF ~ReachesWritableCheck(file, c.request.find_text, c.request.scope.scope_type,
                             c.request.scope.scope_identifier)
    THEN Returns(c, HandlerRun(file, c.request.find_text, c.request.replace_text,
                               c.request.scope.scope_type,
                               c.request.scope.scope_identifier, TRUE, TRUE).result)
    ELSE LoadedStep(c, file, ValidateScope(NoDoc, file, RequestScope(c)))

\* The replacement r has been made in the document in memory.
ReplacedStep(c, r) == [c EXCEPT !.pc = "replaced", !.doc = r.doc, !.total = r.total]

\* Lines 325-339: the replacement on the target.
ReplaceStep(c) ==
    ReplacedStep(c, ReplaceInTarget(c.doc, c.target, c.request.find_text,
                                    c.request.replace_text))

\* Faulty variant of SaveStep: the file is read again and the replacement made
\* on what it holds now, instead of writing the document in memory.
SaveStepMerging(c, file, order) ==
    [caller |-> [Returns(c, Message(c.request.find_text, c.request.replace_text,
                                    RequestScope(c)))
                    EXCEPT !.saved = order],
     file   |-> ReplaceInTarget(file, c.target, c.request.find_text,
                                c.request.replace_text).doc]

\* Lines 341-350 and 756-759: self._doc.save(doc_path) writes the document in
\* memory over the file, and the message is returned; order is 1 for the first
\* save on the path and 2 for the second.
SaveStep(c, file, order) ==
    [caller |-> [Returns(c, Message(c.request.find_text, c.request.replace_text,
                                    RequestScope(c)))
                    EXCEPT !.saved = order],
     file   |-> c.doc]

\* One step of an invocation: the invocation and the file afterwards.
Step(c, file, order) ==
    IF c.pc = "idle" THEN [caller |-> StartStep(c, file), file |-> file]
    ELSE IF c.pc = "loaded" THEN [caller |-> ReplaceStep(c), file |-> file]
    ELSE SaveStep(c, file, order)

\* Faulty variant of SuspensionPoints: the handler awaits after the load.
SuspensionAfterLoad == {"loaded"}

\* The positions at which the coroutine search_and_replace_in_scope gives
\* control back to the event loop: the handler is an async def without an
\* await, and the facade is synchronous.
SuspensionPoints == {}

\* The invocation runs on the event loop until it returns or suspends.
RECURSIVE RunToSuspension(_, _, _)
RunToSuspension(c, file, order) ==
    IF Step(c, file, order).caller.pc \in SuspensionPoints \cup {"returned"}
    THEN Step(c, file, order)
    ELSE RunToSuspension(Step(c, file, order).caller, Step(c, file, order).file, order)

SaveOrder(cs, i) == IF cs[Other(i)].saved > 0 THEN 2 ELSE 1

InitRace ==
    /\ stored \in {DocumentA, DocumentB}
    /\ \E r1 \in Requests, r2 \in Requests :
          callers = <<Invocation(r1), Invocation(r2)>>
    /\ editor_doc = NoDoc
    /\ calls = 0
    /\ result = NoResult
    /\ last_call = NoCall
    /\ scan = NoScan
    /\ util = NoUtil
    /\ paragraph = <<>>
    /\ find_text = <<>>
    /\ replace_text = <<>>
    /\ original_runs = <<>>
    /\ replacements_made = -1
    /\ pieces = <<>>
    /\ cleared = FALSE

\* Invocations in independent processes: invocation i makes its next step,
\* whatever the other one is doing.
CallerStep(i) ==
    /\ callers[i].pc # "returned"
    /\ \E s \in {Step(callers[i], stored, SaveOrder(callers, i))} :
          /\ callers' = [callers EXCEPT ![i] = s.caller]
          /\ stored' = s.file
    /\ UNCHANGED <<editor_doc, calls, result, last_call>>
    /\ UNCHANGED <<pvars, svars, uvars>>

NextRace == \E i \in Invocations : CallerStep(i)

SpecRace == InitRace /\ [][NextRace]_vars

\* Invocations on one event loop: the loop runs invocation i up to its next
\* suspension point or its return.
LoopStep(i) ==
    /\ callers[i].pc # "returned"
    /\ \E s \in {RunToSuspension(callers[i], stored, SaveOrder(callers, i))} :
          /\ callers' = [callers EXCEPT ![i] = s.caller]
          /\ stored' = s.file
    /\ UNCHANGED <<editor_doc, calls, result, last_call>>
    /\ UNCHANGED <<pvars, svars, uvars>>

NextLoop == \E i \in Invocations : LoopStep(i)

SpecLoop == InitRace /\ [][NextLoop]_vars

\* --------------------- SpecScan: replace_in_paragraph, iteration by iteration
\* The inputs of the stepwise pass: the paragraphs in one font (the fonts have
\* no part in the control flow).
ScanParagraphs ==
    {p \in Paragraphs : \A k \in 1..Len(p) : p[k].font = BoldFont}

\* The local variables of a pass in the while loop.
Scanning(current_pos, full_text, count) ==
    [pc |-> "loop", current_pos |-> current_pos, full_text |-> full_text,
     count |-> count]

\* Lines 216-219: the segment after the last match.
RemainingPiece(s, runs) ==
    Piece("segment", s.current_pos, Slice(s.full_text, s.current_pos, Len(s.full_text)),
          ApplyFormattedSegment(Slice(s.full_text, s.current_pos, Len(s.full_text)),
                                runs, s.current_pos))

\* Lines 223-234: the segment before the match at match_pos and the
\* replacement run.
MatchPieces(s, runs, find, repl, match_pos) ==
    << Piece("segment", s.current_pos, Slice(s.full_text, s.current_pos, match_pos),
             ApplyFormattedSegment(Slice(s.full_text, s.current_pos, match_pos),
                                   runs, s.current_pos)),
       Piece("match", match_pos, find,
             <<AddFormattedRun(repl, GetFontForPosition(match_pos, runs))>>) >>

\* Faulty variant of NextPosition: the scan stays at the match.
NextPositionAtMatch(match_pos, find) == match_pos

\* Line 237: current_pos = match_pos + len(find_text).
NextPosition(match_pos, find) == match_pos + Len(find)

InitScan ==
    /\ paragraph \in ScanParagraphs
    /\ find_text \in FindTexts
    /\ replace_text \in ReplaceTexts
    /\ original_runs = paragraph
    /\ replacements_made = -1
    /\ pieces = <<>>
    /\ cleared = FALSE
    /\ scan = [pc |-> "called"]
    /\ util = NoUtil
    /\ callers = NoCallers
    /\ stored = NoFile
    /\ editor_doc = NoDoc
    /\ calls = 0
    /\ result = NoResult
    /\ last_call = NoCall

\* Lines 198-209: the early return, or the snapshot, clear_content() and the
\* loop variables.
ScanBegin ==
    /\ scan.pc = "called"
    /\ IF find_text = <<>> \/ Find(ParagraphText(paragraph), find_text, 0) = -1
       THEN /\ replacements_made' = 0
            /\ scan' = [pc |-> "returned"]
            /\ UNCHANGED <<paragraph, cleared>>
       ELSE /\ scan' = Scanning(0, ParagraphText(paragraph), 0)
            /\ paragraph' = <<>>
            /\ cleared' = TRUE
            /\ UNCHANGED replacements_made
    /\ UNCHANGED <<find_text, replace_text, original_runs, pieces>>
    /\ UNCHANGED <<fvars, rvars, uvars>>

\* One iteration of the while loop (lines 211-237): the break when nothing
\* more is found, or one match replaced and the position moved past it.
ScanIterate ==
    /\ scan.pc = "loop"
    /\ scan.current_pos < Len(scan.full_text)
    /\ \E match_pos \in {Find(scan.full_text, find_text, scan.current_pos)} :
          IF match_pos = -1
          THEN /\ pieces' = Append(pieces, RemainingPiece(scan, ExtractRunInfo(original_runs)))
               /\ scan' = [scan EXCEPT !.pc = "break"]
          ELSE /\ pieces' = pieces \o MatchPieces(scan, ExtractRunInfo(original_runs),
                                                  find_text, replace_text, match_pos)
               /\ scan' = [scan EXCEPT !.current_pos = NextPosition(match_pos, find_text),
                                       !.count = @ + 1]
    /\ paragraph' = PieceRuns(pieces')
    /\ UNCHANGED <<find_text, replace_text, original_runs, replacements_made, cleared>>
    /\ UNCHANGED <<fvars, rvars, uvars>>

\* Line 239, after the break or when the while condition is false.
ScanReturn ==
    /\ \/ scan.pc = "break"
       \/ scan.pc = "loop" /\ ~(scan.current_pos < Len(scan.full_text))
    /\ replacements_made' = scan.count
    /\ scan' = [scan EXCEPT !.pc = "returned"]
    /\ UNCHANGED <<paragraph, find_text, replace_text, original_runs, pieces, cleared>>
    /\ UNCHANGED <<fvars, rvars, uvars>>

NextScan == ScanBegin \/ ScanIterate \/ ScanReturn

\* The interpreter goes on to the next statement of the call it is running.
SpecScan == InitScan /\ [][NextScan]_vars /\ WF_vars(NextScan)

\* ------------------------------------------------ reference definitions
\* What the claims compare the code with; none of them uses the operators above.
StartsWith(text, s) == Len(s) <= Len(text) /\ SubSeq(text, 1, Len(s)) = s

Occurs(text, s) ==
    \E i \in 0..(Len(text) - Len(s)) : SubSeq(text, i + 1, i + Len(s)) = s

\* text.replace(s, r) for a non-empty s: leftmost, non-overlapping.
RECURSIVE StrReplace(_, _, _)
StrReplace(text, s, r) ==
    IF text = <<>> THEN <<>>
    ELSE IF StartsWith(text, s)
    THEN r \o StrReplace(SubSeq(text, Len(s) + 1, Len(text)), s, r)
    ELSE <<Head(text)>> \o StrReplace(Tail(text), s, r)

\* The 0-based start offsets of the leftmost, non-overlapping occurrences of s.
RECURSIVE MatchStarts(_, _, _)
MatchStarts(text, s, pos) ==
    IF pos + Len(s) > Len(text) THEN {}
    ELSE IF SubSeq(text, pos + 1, pos + Len(s)) = s
    THEN {pos} \cup MatchStarts(text, s, pos + Len(s))
    ELSE MatchStarts(text, s, pos + 1)

\* The descriptor of every character of a run list, in order.
RECURSIVE CharFonts(_)
CharFonts(runs) ==
    IF runs = <<>> THEN <<>>
    ELSE [i \in 1..Len(Head(runs).text) |-> Head(runs).font] \o CharFonts(Tail(runs))

RECURSIVE Repeat(_, _)
Repeat(s, n) == IF n = 0 THEN <<>> ELSE s \o Repeat(s, n - 1)

Returned     == replacements_made # -1
OriginalText == ParagraphText(original_runs)
Matches      == MatchStarts(OriginalText, find_text, 0)
InMatch(p)   == \E m \in Matches : m <= p /\ p < m + Len(find_text)
\* Where character p of the original text is after the pass.
Shifted(p)   ==
    p + Cardinality({m \in Matches : m < p}) * (Len(replace_text) - Len(find_text))

\* ------------------------------------------------------------------- C1
\* C1: after replace_in_paragraph(P, S, R) with S non-empty, the paragraph text
\* is the original text with every leftmost, non-overlapping occurrence of S
\* replaced by R.
TextEquivalence ==
    (Returned /\ find_text # <<>>) =>
        ParagraphText(paragraph) = StrReplace(OriginalText, find_text, replace_text)

\* Two occurrences deleted from a paragraph of two runs.
TextEquivalenceWitness ==
    /\ Returned
    /\ replacements_made = 2
    /\ Len(original_runs) = 2
    /\ replace_text = <<>>
    /\ ParagraphText(paragraph) # <<>>

\* ------------------------------------------------------------------- C2
\* C2: when S does not occur in the paragraph's text, the call returns 0, the
\* run list is what it was before the call and it was never cleared.
NoOpUnchanged ==
    (Returned /\ ~Occurs(OriginalText, find_text)) =>
        /\ replacements_made = 0
        /\ paragraph = original_runs
        /\ ~cleared

\* A search string that misses a paragraph of two non-empty runs which a
\* rebuild would merge into one.
NoOpUnchangedWitness ==
    /\ Returned
    /\ find_text # <<>>
    /\ ~Occurs(OriginalText, find_text)
    /\ Len(original_runs) = 2
    /\ \A k \in 1..2 : original_runs[k].text # <<>>
    /\ original_runs[1].font = original_runs[2].font

\* ------------------------------------------------------------------- C3
\* C3: after replace_in_paragraph every character outside the matched spans
\* carries the full descriptor it had before, at its position shifted by the
\* length difference of the replacements before it.
FormattingLocality ==
    (Returned /\ find_text # <<>>) =>
        \A p \in 0..(Len(OriginalText) - 1) :
            ~InMatch(p) =>
                /\ Shifted(p) + 1 \in 1..Len(CharFonts(paragraph))
                /\ CharFonts(paragraph)[Shifted(p) + 1] = CharFonts(original_runs)[p + 1]

\* ------------------------------------------------------------------- C4
\* The maximal stretches of equal descriptors among the characters
\* [start, start + len) of the original text.
Stretches(start, len) ==
    1 + Cardinality({i \in 1..(len - 1) :
            CharFonts(original_runs)[start + i] # CharFonts(original_runs)[start + i + 1]})

\* C4: the runs one apply_formatted_segment call appends for a non-empty
\* substring contain no two adjacent runs with equivalent descriptors, they are
\* as many as the maximal stretches of equivalent descriptors in the substring,
\* and a substring inside one original run gives exactly one run.
RunMinimality ==
    \A k \in 1..Len(pieces) :
        (pieces[k].kind = "segment" /\ pieces[k].text # <<>>) =>
            LET out == pieces[k].runs
            IN  /\ \A j \in 1..(Len(out) - 1) : out[j].font # out[j + 1].font
                /\ Len(out) = Stretches(pieces[k].start, Len(pieces[k].text))

\* ------------------------------------------------------------------- C5
\* The number of runs appended by the pieces before piece k.
RECURSIVE RunsBefore(_)
RunsBefore(k) == IF k <= 1 THEN 0 ELSE RunsBefore(k - 1) + Len(pieces[k - 1].runs)

\* C5: every match puts exactly one run into the paragraph, whose text is the
\* replacement and whose descriptor is that of the original run holding the
\* match's first character, also when the match spans runs; the run before it
\* keeps its own descriptor (run "b" bold + run "a" italic, "a" -> "b", gives
\* the two runs "b" bold and "b" italic).
MatchRunStyle ==
    (Returned /\ cleared) =>
        /\ {pieces[k].start : k \in {j \in 1..Len(pieces) : pieces[j].kind = "match"}}
              = Matches
        /\ Cardinality(Matches) = replacements_made
        /\ \A k \in 1..Len(pieces) :
              pieces[k].kind = "match" =>
                /\ Len(pieces[k].runs) = 1
                /\ RunsBefore(k) + 1 \in 1..Len(paragraph)
                /\ paragraph[RunsBefore(k) + 1] =
                      [text |-> replace_text,
                       font |-> CharFonts(original_runs)[pieces[k].start + 1]]
        /\ Len(paragraph) = RunsBefore(Len(pieces) + 1)
        /\ ( /\ original_runs = << [text |-> <<"b">>, font |-> BoldFont],
                                   [text |-> <<"a">>, font |-> ItalicFont] >>
             /\ find_text = <<"a">>
             /\ replace_text = <<"b">> )
           => paragraph = << [text |-> <<"b">>, font |-> BoldFont],
                             [text |-> <<"b">>, font |-> ItalicFont] >>

\* A match that starts in a bold run and ends in an italic run.
MatchRunStyleWitness ==
    /\ Returned
    /\ replacements_made = 1
    /\ original_runs = << [text |-> <<"b", "a">>, font |-> BoldFont],
                          [text |-> <<"b">>, font |-> ItalicFont] >>
    /\ find_text = <<"a", "b">>
    /\ replace_text = <<"b">>
    /\ paragraph = << [text |-> <<"b">>, font |-> BoldFont],
                      [text |-> <<"b">>, font |-> BoldFont] >>

\* ------------------------------------------------------------------- C7
\* The paragraph is one run whose text is n >= 1 consecutive occurrences of S.
SingleRunOfOccurrences(n) ==
    /\ Returned
    /\ find_text # <<>>
    /\ Len(original_runs) = 1
    /\ n >= 1
    /\ OriginalText = Repeat(find_text, n)

\* C7 as stated: such a pass returns n and leaves one run holding the n
\* concatenated replacements with the run's descriptor.
SingleRunMerged ==
    \A n \in 1..Len(OriginalText) :
        SingleRunOfOccurrences(n) =>
            /\ replacements_made = n
            /\ paragraph = << [text |-> Repeat(replace_text, n),
                               font |-> original_runs[1].font] >>

\* C7 as the code has it: the pass returns n and leaves n runs, one per
\* occurrence, each holding the replacement with the run's descriptor, so the
\* text is the n concatenated replacements.
SingleRunPerOccurrence ==
    \A n \in 1..Len(OriginalText) :
        SingleRunOfOccurrences(n) =>
            /\ replacements_made = n
            /\ Len(paragraph) = n
            /\ \A k \in 1..n :
                  paragraph[k] = [text |-> replace_text, font |-> original_runs[1].font]
            /\ ParagraphText(paragraph) = Repeat(replace_text, n)

\* "aaa" in one bold-strike run, "a" -> "b": three runs "b".
SingleRunPerOccurrenceWitness ==
    /\ SingleRunOfOccurrences(3)
    /\ original_runs[1].font = BoldStrikeFont
    /\ replace_text = <<"b">>
    /\ replacements_made = 3
    /\ Len(paragraph) = 3

\* ------------------------------------- reference definitions, scoped calls
IsDocument(d) == "paragraphs" \in DOMAIN d

InRange(opt, n) == opt # NoIndex /\ 0 <= opt[1] /\ opt[1] < n

\* The scope names a paragraph or a cell the document has.
ValidScope(doc, scope) ==
    \/ scope.scope_type = "paragraph" /\ InRange(scope.paragraph_index, Len(doc.paragraphs))
    \/ /\ scope.scope_type = "table_cell"
       /\ InRange(scope.table_index, Len(doc.tables))
       /\ InRange(scope.row_index, Len(doc.tables[scope.table_index[1] + 1]))
       /\ InRange(scope.col_index, Len(doc.tables[scope.table_index[1] + 1][1]))

\* The paragraphs of the scope, in order.
ScopeParagraphs(doc, scope) ==
    IF scope.scope_type = "paragraph"
    THEN <<doc.paragraphs[scope.paragraph_index[1] + 1]>>
    ELSE doc.tables[scope.table_index[1] + 1][scope.row_index[1] + 1][scope.col_index[1] + 1]

RECURSIVE SumCounts(_)
SumCounts(log) == IF log = <<>> THEN 0 ELSE Head(log).count + SumCounts(Tail(log))

\* The last call was a facade call that got past the empty-search check and
\* validated its scope on a loaded document.
FacadeValidated ==
    /\ last_call.kind = "facade"
    /\ last_call.find_text # <<>>
    /\ IsDocument(last_call.doc_before)

\* ... and the scope was valid.
FacadeValidScope ==
    FacadeValidated /\ ValidScope(last_call.doc_before, last_call.scope)

\* ------------------------------------------------------------------- C6
\* C6: a facade call with a valid scope saves the document if and only if the
\* total replacement count is greater than zero; with a count of zero there is
\* no save and the stored file is not rewritten.
SaveOnlyWhenReplaced ==
    (FacadeValidScope /\ ~IsError(result)) =>
        /\ last_call.saves > 0 <=> last_call.total > 0
        /\ last_call.total = 0 => last_call.stored_after = last_call.stored_before

\* ------------------------------------------------------------------- C8
\* C8: for a table_cell scope the Text Replacer is applied exactly once to every
\* paragraph of the cell, in order, and replacements_made is the sum of the
\* per-paragraph counts (cell with paragraphs "a" and "ba", "a" -> "b": total 2,
\* texts "b" and "bb"); for a paragraph scope it is applied exactly once to the
\* indexed paragraph.
OncePerParagraph ==
    FacadeValidScope =>
        LET before == ScopeParagraphs(last_call.doc_before, last_call.scope)
            after  == ScopeParagraphs(last_call.doc_after, last_call.scope)
            find   == last_call.find_text
            repl   == last_call.replace_text
        IN  /\ Len(after) = Len(before)
            /\ \A k \in 1..Len(before) :
                  ParagraphText(after[k]) = StrReplace(ParagraphText(before[k]), find, repl)
            /\ last_call.applied =
                  [k \in 1..Len(before) |->
                      [paragraph |-> IF last_call.scope.scope_type = "paragraph"
                                     THEN last_call.scope.paragraph_index[1] + 1 ELSE k,
                       count |-> Cardinality(MatchStarts(ParagraphText(before[k]), find, 0))]]
            /\ last_call.total = SumCounts(last_call.applied)
            /\ ~IsError(result) => result.replacements_made = last_call.total
            /\ ( /\ last_call.doc_before = DocumentA
                 /\ last_call.scope = TableCellScope(Some(0), Some(0), Some(0))
                 /\ find = <<"a">> /\ repl = <<"b">> )
               => /\ last_call.total = 2
                  /\ ParagraphText(after[1]) = <<"b">>
                  /\ ParagraphText(after[2]) = <<"b", "b">>

\* The cell with the paragraphs "a" and "ba", "a" -> "aa": both paragraphs
\* replaced once, total 2, saved.
OncePerParagraphWitness ==
    /\ FacadeValidScope
    /\ last_call.doc_before = DocumentA
    /\ last_call.scope = TableCellScope(Some(0), Some(0), Some(0))
    /\ last_call.find_text = <<"a">>
    /\ last_call.replace_text = <<"a", "a">>
    /\ ~IsError(result)
    /\ result.replacements_made = 2
    /\ IsDocument(last_call.stored_after)
    /\ ParagraphText(last_call.stored_after.tables[1][1][1][2]) = <<"b", "a", "a">>

\* ------------------------------------------------------------------- C9
\* C9: a call with an empty search string returns an error, whatever the scope,
\* and neither loads nor saves the document.
EmptySearchRejected ==
    (last_call.kind # "none" /\ last_call.find_text = <<>>) =>
        /\ last_call.loads = 0
        /\ last_call.saves = 0
        /\ last_call.stored_after = last_call.stored_before
        /\ last_call.kind = "facade" =>
              /\ result = [error |-> "Find text cannot be empty"]
              /\ last_call.doc_after = last_call.editor_before
        /\ last_call.kind = "handler" =>
              result.text \in {"Find text cannot be empty.", "The document could not be found"}

\* An empty search string with a valid scope on a document that would load.
EmptySearchRejectedWitness ==
    /\ last_call.kind = "facade"
    /\ last_call.find_text = <<>>
    /\ last_call.editor_before = NoDoc
    /\ last_call.stored_before = DocumentA
    /\ ValidScope(DocumentA, last_call.scope)
    /\ IsError(result)

\* ------------------------------------------------------------------ C10
\* C10: for a paragraph scope exactly the indices 0 <= i < paragraph_count are
\* accepted; a rejected index gets an error naming the index and the paragraph
\* count, an accepted one makes the paragraph at that index the target.
ParagraphIndexBounds ==
    ( /\ FacadeValidated
      /\ last_call.scope.scope_type = "paragraph"
      /\ last_call.scope.paragraph_index # NoIndex ) =>
        LET i      == last_call.scope.paragraph_index[1]
            before == last_call.doc_before
            after  == last_call.doc_after
            n      == Len(before.paragraphs)
        IN  IF 0 <= i /\ i < n
            THEN /\ IsError(result) => result = [error |-> "Failed to perform search and replace"]
                 /\ Len(last_call.applied) = 1
                 /\ last_call.applied[1].paragraph = i + 1
                 /\ ParagraphText(after.paragraphs[i + 1]) =
                       StrReplace(ParagraphText(before.paragraphs[i + 1]),
                                  last_call.find_text, last_call.replace_text)
                 /\ \A k \in 1..n : k # i + 1 => after.paragraphs[k] = before.paragraphs[k]
                 /\ Len(after.paragraphs) = n
                 /\ after.tables = before.tables
            ELSE /\ result = [error |-> "Invalid paragraph index", index |-> i,
                              has |-> n, of |-> "paragraphs"]
                 /\ last_call.applied = <<>>
                 /\ after = before

\* paragraph_index = paragraph_count = 3 is rejected.
ParagraphIndexBoundsWitness ==
    /\ FacadeValidated
    /\ last_call.doc_before = DocumentB
    /\ last_call.scope = ParagraphScope(Some(3))
    /\ result = [error |-> "Invalid paragraph index", index |-> 3, has |-> 3,
                 of |-> "paragraphs"]

\* ------------------------------------------------------------------ C11
BoundsError(index, has, of) ==
    [error |-> "Invalid " \o of \o " index", index |-> index, has |-> has,
     of |-> of \o "s"]

\* The last call was a facade call that validated a table_cell scope with its
\* three indices given on a loaded document.
CellScopeValidated ==
    /\ FacadeValidated
    /\ last_call.scope.scope_type = "table_cell"
    /\ last_call.scope.table_index # NoIndex
    /\ last_call.scope.row_index # NoIndex
    /\ last_call.scope.col_index # NoIndex

\* C11: for a table_cell scope the checks are table_index, then row_index
\* against that table's rows, then col_index against that table's columns, and
\* the result is the error of the first check that fails, alone.
CellChecksInOrder ==
    CellScopeValidated =>
        LET scope  == last_call.scope
            tables == last_call.doc_before.tables
            t      == scope.table_index[1]
            r      == scope.row_index[1]
            c      == scope.col_index[1]
        IN  IF ~(0 <= t /\ t < Len(tables))
            THEN result = BoundsError(t, Len(tables), "table")
            ELSE IF ~(0 <= r /\ r < Len(tables[t + 1]))
            THEN result = BoundsError(r, Len(tables[t + 1]), "row")
            ELSE IF ~(0 <= c /\ c < Len(tables[t + 1][1]))
            THEN result = BoundsError(c, Len(tables[t + 1][1]), "column")
            ELSE IsError(result) => result = [error |-> "Failed to perform search and replace"]

\* Row 1 and column 2 of the one-row, two-column table are both out of range:
\* the row error is the one returned.
CellChecksInOrderWitness ==
    /\ CellScopeValidated
    /\ last_call.doc_before = DocumentA
    /\ last_call.scope = TableCellScope(Some(0), Some(1), Some(2))
    /\ result = BoundsError(1, 1, "row")

\* ------------------------------------------------------------------ C12
\* The scope has the indices its type needs and one of them is out of range.
OutOfRange(doc, scope) ==
    /\ \/ scope.scope_type = "paragraph" /\ scope.paragraph_index # NoIndex
       \/ /\ scope.scope_type = "table_cell"
          /\ scope.table_index # NoIndex
          /\ scope.row_index # NoIndex
          /\ scope.col_index # NoIndex
    /\ ~ValidScope(doc, scope)

\* C12: when an index of the scope is out of range the call returns the error
\* with no paragraph of the loaded document changed and no save made; the
\* stored document is what it was before the call.
BoundsErrorLeavesDocument ==
    /\ (FacadeValidated /\ OutOfRange(last_call.doc_before, last_call.scope)) =>
          /\ IsError(result)
          /\ result.error \in {"Invalid paragraph index", "Invalid table index",
                               "Invalid row index", "Invalid column index"}
          /\ last_call.applied = <<>>
          /\ last_call.doc_after = last_call.doc_before
          /\ last_call.saves = 0
          /\ last_call.stored_after = last_call.stored_before
    /\ ( /\ last_call.kind = "handler"
         /\ "error" \in DOMAIN result
         /\ "index" \in DOMAIN result.error ) =>
          /\ last_call.applied = <<>>
          /\ last_call.saves = 0
          /\ last_call.stored_after = last_call.stored_before

\* paragraph_index 3 on the stored three-paragraph document: the error cites
\* 3 paragraphs, nothing is saved.
BoundsErrorLeavesDocumentWitness ==
    /\ FacadeValidated
    /\ last_call.stored_before = DocumentB
    /\ last_call.loads = 1
    /\ last_call.scope = ParagraphScope(Some(3))
    /\ result.error = "Invalid paragraph index"
    /\ result.has = 3
    /\ last_call.saves = 0
    /\ last_call.stored_after = DocumentB

\* ------------------------------------------------------------------ C13
\* C13: when the save fails after the replacement in memory, the call returns
\* an error, the stored document is what it was before the call, and the
\* changed document in memory is discarded: the editor is left without a
\* document, or with the one it had before the replacement.
FailedSaveDiscards ==
    (FacadeValidScope /\ ~last_call.save_ok) =>
        /\ IsError(result)
        /\ last_call.stored_after = last_call.stored_before
        /\ last_call.doc_after \in {NoDoc, last_call.doc_before}

\* ------------------------------------------------------------------ C14
\* The scope_type is unknown or an index the scope_type needs is None.
Malformed(scope) ==
    \/ scope.scope_type \notin {"paragraph", "table_cell"}
    \/ scope.scope_type = "paragraph" /\ scope.paragraph_index = NoIndex
    \/ /\ scope.scope_type = "table_cell"
       /\ NoIndex \in {scope.table_index, scope.row_index, scope.col_index}

\* C14: a malformed scope is rejected with its error before the document is
\* touched: the call that returns the error has loaded nothing.
MalformedScopeBeforeLoad ==
    /\ ( /\ last_call.kind = "facade"
         /\ last_call.find_text # <<>>
         /\ Malformed(last_call.scope) ) =>
          /\ IsError(result)
          /\ result.error \in {"Invalid scope_type",
                               "Missing paragraph_index for paragraph scope",
                               "Missing table_index for table_cell scope",
                               "Missing row_index for table_cell scope",
                               "Missing col_index for table_cell scope"}
          /\ last_call.loads = 0
    /\ ( /\ last_call.kind = "handler"
         /\ last_call.find_text # <<>>
         /\ last_call.stored_before # NoFile
         /\ Malformed(HandlerScopeLocation(last_call.scope.scope_type,
                                           last_call.scope.scope_identifier)) ) =>
          last_call.loads = 0

\* ------------------------------------------------------------------ C15
\* C15: every call reloads the document from storage and works on the file's
\* content at the time of the call, never on a document kept from an earlier
\* call; so a call on a file that is missing or unreadable fails.
ReloadsEveryCall ==
    (last_call.kind = "facade" /\ last_call.find_text # <<>>) =>
        IF IsDocument(last_call.stored_before)
        THEN /\ last_call.loads = 1
             /\ last_call.doc_before = last_call.stored_before
        ELSE /\ IsError(result)
             /\ last_call.saves = 0

\* ------------------------------------------------------------------ C16
RECURSIVE OccurrencesIn(_, _)
\* The occurrences of find, left to right and not overlapping, in the
\* paragraphs given.
OccurrencesIn(paragraphs, find) ==
    IF paragraphs = <<>> THEN 0
    ELSE Cardinality(MatchStarts(ParagraphText(Head(paragraphs)), find, 0))
         + OccurrencesIn(Tail(paragraphs), find)

\* "Paragraph[i]" or "Table[t] Cell[r, c]".
Description(scope) ==
    IF scope.scope_type = "paragraph"
    THEN [kind |-> "Paragraph", index |-> scope.paragraph_index]
    ELSE [kind |-> "Table", table |-> scope.table_index,
          row |-> scope.row_index, col |-> scope.col_index]

\* C16: a successful result has success = true, replacements_made equal to the
\* replacements made in the scope during the call, scope equal to the
\* description of the requested scope, and find_text and replace_text as passed.
SuccessResultFields ==
    (last_call.kind = "facade" /\ ~IsError(result)) =>
        /\ FacadeValidScope
        /\ result.success = TRUE
        /\ result.replacements_made =
              OccurrencesIn(ScopeParagraphs(last_call.doc_before, last_call.scope),
                            last_call.find_text)
        /\ result.replacements_made = last_call.total
        /\ result.scope = Description(last_call.scope)
        /\ result.find_text = last_call.find_text
        /\ result.replace_text = last_call.replace_text

\* The cell with the paragraphs "a" and "ba", "a" -> "b".
SuccessResultFieldsWitness ==
    /\ last_call.kind = "facade"
    /\ ~IsError(result)
    /\ last_call.doc_before = DocumentA
    /\ result.scope = [kind |-> "Table", table |-> Some(0), row |-> Some(0),
                       col |-> Some(0)]
    /\ result.replacements_made = 2
    /\ result.find_text = <<"a">>
    /\ result.replace_text = <<"b">>

\* ------------------------------------------------------------------ C17
\* Every attribute of the descriptor matches, None matching None only; an
\* absent descriptor matches an absent one only.
SameDescriptor(a, b) ==
    IF a = NoFont \/ b = NoFont THEN a = b
    ELSE \A attr \in DOMAIN a : a[attr] = b[attr]

\* The descriptors at hand in a paragraph pass: those of the original runs,
\* the paragraph style's and an absent one.
DescriptorsAtHand ==
    {original_runs[k].font : k \in 1..Len(original_runs)} \cup {StyleFont, NoFont}

\* C17: in a pass that rebuilt the paragraph, fonts_are_equivalent is true if
\* and only if every attribute of the two descriptors matches (name, size, bold, italic, underline, strike,
\* double_strike, subscript, superscript, all_caps, small_caps, shadow, outline,
\* emboss, imprint, color, highlight_color), also when a descriptor is absent.
ComparatorComplete ==
    replacements_made > 0 =>
        \A a \in DescriptorsAtHand, b \in DescriptorsAtHand :
            FontsAreEquivalent(a, b) <=> SameDescriptor(a, b)

\* ------------------------------------------------------------------ C18
\* C18: _get_font_for_position does not fail; for a position that no original
\* run covers (at or past the length of the runs' text) it returns the
\* descriptor of the last original run, and the paragraph style's descriptor
\* when there are no runs.
FallbackIsLastRun ==
    \A position \in Len(ParagraphText(original_runs))
                    .. Len(ParagraphText(original_runs)) + 1 :
        GetFontForPosition(position, ExtractRunInfo(original_runs)) =
            IF original_runs = <<>> THEN StyleFont
            ELSE original_runs[Len(original_runs)].font

\* ------------------------------------------------------------------ C19
\* C19: with a valid scope and a search string that is not empty and occurs in
\* no paragraph of the scope, the call returns a success result with
\* replacements_made = 0, not an error; an empty search string gets an error.
NotFoundIsSuccess ==
    /\ ( /\ FacadeValidScope
         /\ OccurrencesIn(ScopeParagraphs(last_call.doc_before, last_call.scope),
                          last_call.find_text) = 0 ) =>
          /\ ~IsError(result)
          /\ result.success = TRUE
          /\ result.replacements_made = 0
    /\ (last_call.kind = "facade" /\ last_call.find_text = <<>>) => IsError(result)

\* ------------------------------------------------------------------ C20
\* The reasons a facade call fails: empty search string, no document to work
\* on (missing or unloadable), a scope that is malformed or out of range, a
\* save that fails.
FacadeFailure ==
    \/ last_call.find_text = <<>>
    \/ ~IsDocument(last_call.doc_before)
    \/ ~ValidScope(last_call.doc_before, last_call.scope)
    \/ ~last_call.save_ok

\* The reasons a handler call fails that the call record shows.
HandlerFailure ==
    \/ last_call.find_text = <<>>
    \/ ~IsDocument(last_call.stored_before)
    \/ last_call.scope.scope_type \notin {"paragraph", "table_cell"}
    \/ MissingKeys(last_call.scope.scope_type, last_call.scope.scope_identifier) # <<>>
    \/ ~last_call.save_ok

\* C20: every failure of a scoped replacement call comes back as an error
\* value, {error: ...} from the facade and an error string from the handler,
\* never as an exception, and nothing is retried: a call loads at most once and
\* tries to save at most once, and after a failure does neither again.
FailuresAreErrorValues ==
    /\ last_call.kind = "facade" =>
          /\ IsError(result) <=> FacadeFailure
          /\ ~IsError(result) => result.success = TRUE
          /\ last_call.loads <= 1
          /\ last_call.saves <= 1
          /\ IsError(result) =>
                /\ last_call.stored_after = last_call.stored_before
                /\ last_call.saves = 1 => FacadeValidScope /\ ~last_call.save_ok
                /\ last_call.loads = 1 /\ ~IsDocument(last_call.doc_before) =>
                      last_call.saves = 0
    /\ last_call.kind = "raising" =>
          /\ IsError(result)
          /\ last_call.loads <= 1
          /\ last_call.saves = 0
          /\ last_call.stored_after = last_call.stored_before
    /\ last_call.kind = "handler" =>
          /\ "text" \in DOMAIN result
          /\ HandlerFailure => result.text # "Replaced"
          /\ last_call.loads <= 1
          /\ last_call.saves <= 1
          /\ result.text # "Replaced" =>
                /\ last_call.stored_after = last_call.stored_before
                /\ last_call.saves = 1 => ~last_call.save_ok

\* A file that does not load: one load, the load error, no save.
FailuresAreErrorValuesWitness ==
    /\ last_call.kind = "facade"
    /\ last_call.stored_before = CorruptFile
    /\ result = [error |-> "Failed to load document"]
    /\ last_call.loads = 1
    /\ last_call.saves = 0

\* --------------------------------- reference definitions, two invocations
\* The texts of the paragraphs given, and those texts with find replaced.
Texts(paragraphs) == [k \in 1..Len(paragraphs) |-> ParagraphText(paragraphs[k])]

ReplacedTexts(texts, find, repl) ==
    [k \in 1..Len(texts) |-> StrReplace(texts[k], find, repl)]

\* The document with the paragraphs of the scope taken out.
Outside(doc, scope) ==
    IF scope.scope_type = "paragraph"
    THEN [doc EXCEPT !.paragraphs[scope.paragraph_index[1] + 1] = <<>>]
    ELSE [doc EXCEPT !.tables[scope.table_index[1] + 1][scope.row_index[1] + 1]
                             [scope.col_index[1] + 1] = <<>>]

BothSaved == callers # NoCallers /\ \A i \in Invocations : callers[i].saved > 0

\* The invocation that saved first, and the one that saved last.
Earlier == CHOOSE i \in Invocations : callers[i].saved = 1
Later   == CHOOSE i \in Invocations : callers[i].saved = 2

\* ------------------------------------------------------------------ C21
\* C21: when two invocations by independent callers have both loaded the same
\* file and both saved, both have returned success and the file stored is the
\* file they loaded with the later writer's replacements only.
LastWriterWins ==
    (BothSaved /\ callers[1].loaded = callers[2].loaded) =>
        LET scope == RequestScope(callers[Later])
            file  == callers[Later].loaded
        IN  /\ \A i \in Invocations : callers[i].result.text = "Replaced"
            /\ Texts(ScopeParagraphs(stored, scope)) =
                  ReplacedTexts(Texts(ScopeParagraphs(file, scope)),
                                callers[Later].request.find_text,
                                callers[Later].request.replace_text)
            /\ Outside(stored, scope) = Outside(file, scope)

\* Both loaded the same file, both saved and returned success; the earlier
\* writer had replaced something in another scope, and the file stored has that
\* scope as it was before.
LastWriterWinsWitness ==
    /\ BothSaved
    /\ callers[1].loaded = callers[2].loaded
    /\ \A i \in Invocations : callers[i].result.text = "Replaced"
    /\ callers[Earlier].total > 0
    /\ callers[Later].total > 0
    /\ RequestScope(callers[Earlier]) # RequestScope(callers[Later])
    /\ ScopeParagraphs(stored, RequestScope(callers[Earlier])) =
          ScopeParagraphs(callers[Earlier].loaded, RequestScope(callers[Earlier]))
    /\ ScopeParagraphs(callers[Earlier].doc, RequestScope(callers[Earlier])) #
          ScopeParagraphs(callers[Earlier].loaded, RequestScope(callers[Earlier]))

\* ------------------------------------------------------------------ C22
\* C22: on one event loop the handler has no suspension point between load and
\* save: no invocation is ever seen between its load and its save, the later
\* of two invocations loads what the earlier one saved, and the file stored
\* has the replacements of both.
NoInterleavingOnLoop ==
    callers # NoCallers =>
        /\ \A i \in Invocations : callers[i].pc \in {"idle", "returned"}
        /\ BothSaved =>
              LET first  == callers[Earlier]
                  second == callers[Later]
                  after1 == ReplacedTexts(
                               Texts(ScopeParagraphs(first.loaded, RequestScope(first))),
                               first.request.find_text, first.request.replace_text)
              IN  /\ second.loaded = first.doc
                  /\ stored = second.doc
                  /\ Texts(ScopeParagraphs(second.loaded, RequestScope(first))) = after1
                  /\ Texts(ScopeParagraphs(stored, RequestScope(second))) =
                        ReplacedTexts(
                           IF RequestScope(second) = RequestScope(first) THEN after1
                           ELSE Texts(ScopeParagraphs(first.loaded, RequestScope(second))),
                           second.request.find_text, second.request.replace_text)
                  /\ RequestScope(second) # RequestScope(first) =>
                        Texts(ScopeParagraphs(stored, RequestScope(first))) = after1

\* Two invocations on different scopes, both with replacements: the file has
\* both.
NoInterleavingOnLoopWitness ==
    /\ BothSaved
    /\ callers[Earlier].total > 0
    /\ callers[Later].total > 0
    /\ RequestScope(callers[Earlier]) # RequestScope(callers[Later])
    /\ ScopeParagraphs(stored, RequestScope(callers[Earlier])) =
          ScopeParagraphs(callers[Earlier].doc, RequestScope(callers[Earlier]))
    /\ ScopeParagraphs(stored, RequestScope(callers[Later])) #
          ScopeParagraphs(callers[Earlier].loaded, RequestScope(callers[Later]))

\* ------------------------------------------------------------------ C23
\* C23: on success the value the tool handler returns states the number of
\* replacements made in the scope, the facade's replacements_made.
HandlerMessageStatesCount ==
    (last_call.kind = "handler" /\ result.text = "Replaced") =>
        /\ "replacements_made" \in DOMAIN result
        /\ result.replacements_made = last_call.total

\* ------------------------------------------------------------------ C24
\* The start offsets of the matches the pass replaced, from its pieces.
ReplacedAt == {pieces[k].start : k \in {j \in 1..Len(pieces) : pieces[j].kind = "match"}}

\* C24: the count returned is the number of occurrences found by repeated
\* leftmost search restarting at the end of the previous match: an occurrence
\* overlapping a consumed match is neither counted nor replaced ("aaa", "aa":
\* count 1, the replacement followed by "a"), and a match that ends at the end
\* of the text is counted.
CountsNonOverlapping ==
    (Returned /\ find_text # <<>>) =>
        /\ replacements_made = Cardinality(Matches)
        /\ Occurs(OriginalText, find_text) => ReplacedAt = Matches
        /\ \A m \in ReplacedAt, n \in ReplacedAt :
              m < n => m + Len(find_text) <= n
        /\ (OriginalText = <<"a", "a", "a">> /\ find_text = <<"a", "a">>) =>
              /\ replacements_made = 1
              /\ ParagraphText(paragraph) = replace_text \o <<"a">>
        /\ ( /\ Len(find_text) <= Len(OriginalText)
             /\ SubSeq(OriginalText, Len(OriginalText) - Len(find_text) + 1,
                       Len(OriginalText)) = find_text
             /\ ~\E m \in Matches \ {Len(OriginalText) - Len(find_text)} :
                    m + Len(find_text) > Len(OriginalText) - Len(find_text) )
           => Len(OriginalText) - Len(find_text) \in ReplacedAt

\* "aaa", "aa" -> "b": one replacement, the text is "ba".
CountsNonOverlappingWitness ==
    /\ Returned
    /\ OriginalText = <<"a", "a", "a">>
    /\ find_text = <<"a", "a">>
    /\ replace_text = <<"b">>
    /\ replacements_made = 1
    /\ ParagraphText(paragraph) = <<"b", "a">>

\* ------------------------------------------------------------------ C25
\* The offset of run k in the text: the lengths of the runs before it.
RECURSIVE Offset(_, _)
Offset(runs, k) == IF k = 1 THEN 0 ELSE Offset(runs, k - 1) + Len(runs[k - 1].text)

\* The runs whose span [offset, offset + len(text)) holds position p.
Covering(runs, p) ==
    {k \in 1..Len(runs) : Offset(runs, k) <= p /\ p < Offset(runs, k) + Len(runs[k].text)}

\* C25: the lookup the pass used partitions [0, text length) by run: every
\* position is in the span of exactly one run and _get_font_for_position
\* returns that run's descriptor; a run of length zero covers no position.
LookupPartitions ==
    Returned =>
        LET infos == ExtractRunInfo(original_runs)
            fonts == CharFonts(original_runs)
            cover == [p \in 0..Len(OriginalText) |-> Covering(original_runs, p)]
        IN  /\ \A p \in 0..(Len(OriginalText) - 1) :
                  /\ Cardinality(cover[p]) = 1
                  /\ \A k \in cover[p] :
                        GetFontForPosition(p, infos) = original_runs[k].font
                  /\ GetFontForPosition(p, infos) = fonts[p + 1]
            /\ \A k \in 1..Len(original_runs) :
                  original_runs[k].text = <<>> =>
                      \A p \in 0..Len(OriginalText) : k \notin cover[p]

\* A pass on a paragraph that starts with an empty run: position 0 belongs to
\* the second run.
LookupPartitionsWitness ==
    /\ Returned
    /\ replacements_made > 0
    /\ Len(original_runs) = 2
    /\ original_runs[1].text = <<>>
    /\ original_runs[2].text # <<>>
    /\ original_runs[1].font # original_runs[2].font
    /\ Covering(original_runs, 0) = {2}
    /\ GetFontForPosition(0, ExtractRunInfo(original_runs)) = original_runs[2].font

\* ------------------------------------------------------------------ C26
\* The pieces tile the text from offset pos on, each piece holding the part of
\* the text it starts at.
RECURSIVE Tiles(_, _, _)
Tiles(ps, text, pos) ==
    IF ps = <<>> THEN pos = Len(text)
    ELSE /\ Head(ps).start = pos
         /\ Head(ps).text = SubSeq(text, pos + 1, pos + Len(Head(ps).text))
         /\ Tiles(Tail(ps), text, pos + Len(Head(ps).text))

\* C26: the runs and the text are captured before the paragraph is cleared
\* and the pass reads only that snapshot: every segment and every match is a
\* part of the original text at its original offset, and inserted text is not
\* searched again, so a replacement that contains the search string
\* ("a" -> "aa") is applied once per original occurrence.
ReadsOnlySnapshot ==
    (Returned /\ cleared) =>
        /\ Tiles(pieces, OriginalText, 0)
        /\ \A k \in 1..Len(pieces) :
              pieces[k].kind = "match" =>
                  /\ pieces[k].text = find_text
                  /\ pieces[k].runs =
                        <<AddFormattedRun(replace_text,
                                          CharFonts(original_runs)[pieces[k].start + 1])>>
        /\ replacements_made = Cardinality(Matches)
        /\ ParagraphText(paragraph) = StrReplace(OriginalText, find_text, replace_text)

\* "a" -> "aa" on a text with one "a": one replacement, and the text after
\* the pass has two occurrences.
ReadsOnlySnapshotWitness ==
    /\ Returned
    /\ cleared
    /\ find_text = <<"a">>
    /\ replace_text = <<"a", "a">>
    /\ replacements_made = 1
    /\ Cardinality(MatchStarts(ParagraphText(paragraph), find_text, 0)) = 2

\* ------------------------------------------------------------------ C27
\* C27: the pass terminates: from one iteration of the loop to the next the
\* scan position strictly increases, and the call eventually returns.
PassTerminates ==
    /\ [][(scan.pc = "loop" /\ scan'.pc = "loop")
             => scan'.current_pos > scan.current_pos]_vars
    /\ <>(scan.pc = "returned")

\* A pass that replaced two occurrences and ended because the position
\* reached the length of the text.
PassTerminatesWitness ==
    /\ scan.pc = "returned"
    /\ replacements_made = 2
    /\ scan.current_pos = Len(scan.full_text)
    /\ ParagraphText(paragraph) = StrReplace(OriginalText, find_text, replace_text)

\* ------------------------------------------------------------------ C28

\* The call at hand stopped at a paragraph that holds occurrences, after it
\* had replaced some in earlier paragraphs of the cell: self._doc holds
\* replacements of a pass that did not finish.
UnfinishedPass ==
    /\ last_call.kind = "raising"
    /\ last_call.doc_after # last_call.doc_before
    /\ OccurrencesIn(ScopeParagraphs(last_call.doc_after, last_call.scope),
                     last_call.find_text) > 0

\* The stored document holds the cell as the unfinished pass left it.
UnfinishedReachesStorage ==
    /\ IsDocument(stored')
    /\ ValidScope(stored', last_call.scope)
    /\ ScopeParagraphs(stored', last_call.scope)
          = ScopeParagraphs(last_call.doc_after, last_call.scope)

\* C28: a scoped replacement call reads the stored document at most once and
\* writes it at most once; it writes only after replace_in_paragraph has
\* returned for every paragraph of the scope; when the pass fails at a
\* paragraph of a cell nothing is saved, and the replacements it had made in
\* the earlier paragraphs never reach the stored document.
WritesOnlyFinishedPass ==
    /\ [](last_call.kind \in {"facade", "raising", "handler"} =>
            /\ last_call.loads <= 1
            /\ last_call.saves <= 1
            /\ last_call.saves = 1 =>
                  /\ IsDocument(last_call.doc_before)
                  /\ Len(last_call.applied)
                        = Len(ScopeParagraphs(last_call.doc_before,
                              IF last_call.kind = "handler"
                              THEN HandlerScopeLocation(last_call.scope.scope_type,
                                       last_call.scope.scope_identifier)
                              ELSE last_call.scope))
            /\ last_call.kind = "raising" =>
                  /\ last_call.saves = 0
                  /\ last_call.stored_after = last_call.stored_before)
    /\ [][UnfinishedPass => ~UnfinishedReachesStorage]_vars

\* ------------------------------------------------------------------ C29

\* The scope of the call at hand as a ScopeLocation.
CallScope ==
    IF last_call.kind = "handler"
    THEN HandlerScopeLocation(last_call.scope.scope_type, last_call.scope.scope_identifier)
    ELSE last_call.scope

\* C29: a scoped replacement call changes only paragraphs of the resolved
\* scope: whenever the stored document differs after the call, the scope is
\* one of its places, everything outside that paragraph or cell has the same
\* runs as before, and the number of paragraphs (of the body and of the cell)
\* and the shape of every table are the same.
ChangesOnlyScope ==
    (/\ last_call.kind \in {"facade", "raising", "handler"}
     /\ last_call.stored_after # last_call.stored_before) =>
        /\ IsDocument(last_call.stored_before)
        /\ IsDocument(last_call.stored_after)
        /\ ValidScope(last_call.stored_before, CallScope)
        /\ ValidScope(last_call.stored_after, CallScope)
        /\ Outside(last_call.stored_after, CallScope)
              = Outside(last_call.stored_before, CallScope)
        /\ Len(ScopeParagraphs(last_call.stored_after, CallScope))
              = Len(ScopeParagraphs(last_call.stored_before, CallScope))

\* ------------------------------------------------------------------ C30

\* C30: the two paragraph-level implementations agree: for a search string
\* that is not empty, replace_in_paragraph_preserving_formatting returns the
\* count that replace_in_paragraph returned for the same paragraph and
\* arguments and leaves the same sequence of runs, texts and fonts.
ImplementationsAgree ==
    (util.called /\ find_text # <<>>) =>
        /\ util.count = replacements_made
        /\ util.runs = paragraph

\* Both ran on a paragraph of two runs with different fonts, made replacements
\* and rebuilt it as more than one run.
ImplementationsAgreeWitness ==
    /\ util.called
    /\ Len(original_runs) = 2
    /\ original_runs[1].font # original_runs[2].font
    /\ util.count > 0
    /\ replacements_made = util.count
    /\ Len(util.runs) >= 2
    /\ util.runs = paragraph

====
